---- MODULE Spec2Model ----
(***************************************************************************)
(* A model of the capacity-tariff peak tracker (lib/peak-tracker.js).      *)
(*                                                                         *)
(* Numbers are JavaScript numbers in the source.  The model keeps them as  *)
(* exact rationals <<numerator, denominator>> in lowest terms, so that an  *)
(* average, a percentage or a conversion to amps is the value the code     *)
(* computes and not a truncation of it.  A denominator of 0 is "not a      *)
(* number": <<0, 0>> stands for null and <<1, 0>> for NaN.                 *)
(*                                                                         *)
(* A timestamp is a local wall-clock reading [day, hour, minute]; the UTC  *)
(* fields that Date.toISOString() exposes are derived from it with the     *)
(* process's time-zone offset.                                             *)
(***************************************************************************)
EXTENDS Integers, Sequences, FiniteSets, TLC

VARIABLES
    config,       \* the merged configuration (fixed after construction)
    tzOffset,     \* hours the local clock is ahead of UTC (fixed)
    state,        \* the engine state object that every call mutates
    now,          \* the timestamp of the latest call
    result,       \* what the latest call returned
    submitted     \* history of the calls; each specification says what it records

vars == <<config, tzOffset, state, now, result, submitted>>

----------------------------------------------------------------------------
(* Bounds of the model *)

\* days in a calendar month of the model's calendar
DaysPerMonth == 2
\* last day (counted from day 0) on which a sample may arrive
MaxDay == 3
\* weekday (0 = Sunday) of day 0
EpochDow == 0
\* month index (0 = January) of day 0
EpochMonth == 11
\* calendar year of day 0
EpochYear == 2024
\* last day of the horizon of the annual-billing runs
MaxBillingDay == 6
\* dates a direct recordPeak call may name are 0 .. MaxRecordDate
MaxRecordDate == 3

----------------------------------------------------------------------------
(* JavaScript numbers as exact rationals *)

RECURSIVE GCD(_, _)
GCD(a, b) == IF b = 0 THEN a ELSE GCD(b, a % b)

Abs(n) == IF n < 0 THEN -n ELSE n

Null == <<0, 0>>
NaN == <<1, 0>>
IsNum(x) == x[2] # 0
IsNull(x) == x = Null

\* n/d in lowest terms with a positive denominator
Rat(n, d) ==
    IF d = 0 THEN NaN
    ELSE LET g == GCD(Abs(n), Abs(d))
             s == IF d < 0 THEN -1 ELSE 1
         IN  <<(s * n) \div g, (s * d) \div g>>

Num(n) == <<n, 1>>

RAdd(x, y) == IF IsNum(x) /\ IsNum(y) THEN Rat(x[1] * y[2] + y[1] * x[2], x[2] * y[2]) ELSE NaN
RSub(x, y) == IF IsNum(x) /\ IsNum(y) THEN Rat(x[1] * y[2] - y[1] * x[2], x[2] * y[2]) ELSE NaN
RMul(x, y) == IF IsNum(x) /\ IsNum(y) THEN Rat(x[1] * y[1], x[2] * y[2]) ELSE NaN
RDiv(x, y) == IF IsNum(x) /\ IsNum(y) /\ y[1] # 0 THEN Rat(x[1] * y[2], x[2] * y[1]) ELSE NaN

\* comparisons: every comparison with NaN or null-as-operand of > is false
RLt(x, y) == IsNum(x) /\ IsNum(y) /\ x[1] * y[2] < y[1] * x[2]
RGt(x, y) == RLt(y, x)
RLe(x, y) == IsNum(x) /\ IsNum(y) /\ x[1] * y[2] <= y[1] * x[2]
RGe(x, y) == RLe(y, x)

\* Math.max / Math.min: NaN if either argument is NaN
RMax(x, y) == IF ~(IsNum(x) /\ IsNum(y)) THEN NaN ELSE IF RLt(x, y) THEN y ELSE x
RMin(x, y) == IF ~(IsNum(x) /\ IsNum(y)) THEN NaN ELSE IF RLt(y, x) THEN y ELSE x

\* floor of a rational, as an integer
RFloor(x) == x[1] \div x[2]

\* Math.round(x): the nearest integer, halves rounded up
MathRound(x) == IF IsNum(x) THEN Num(RFloor(RAdd(x, <<1, 2>>))) ELSE NaN

\* Math.round(x * 10) / 10
RoundTenth(x) == RDiv(MathRound(RMul(x, Num(10))), Num(10))

----------------------------------------------------------------------------
(* The calendar: what the Date methods used by the code return *)

Stamp(d, h, m) == [day |-> d, hour |-> h, minute |-> m]

\* Date.getHours(), getMinutes(): local clock
getHours(t) == t.hour
getMinutes(t) == t.minute
\* Date.getDay(): 0 = Sunday .. 6 = Saturday, local
getDay(t) == (EpochDow + t.day) % 7
\* months elapsed since the month of day 0
MonthsSinceEpoch(t) == EpochMonth + (t.day \div DaysPerMonth)
\* Date.getMonth(): 0 = January .. 11 = December, local
getMonth(t) == MonthsSinceEpoch(t) % 12
\* Date.getFullYear(), local
getFullYear(t) == EpochYear + (MonthsSinceEpoch(t) \div 12)
\* hours since local midnight of day 0
AbsHour(t) == t.day * 24 + t.hour
\* the UTC reading of the same instant
UtcDay(t, tz) == (AbsHour(t) - tz) \div 24
UtcHour(t, tz) == (AbsHour(t) - tz) % 24
\* now.toISOString().split('T')[0]: the UTC calendar date, as a day number
IsoDate(t, tz) == UtcDay(t, tz)
\* new Date(now.getTime() - 3600000).toISOString().split('T')[0]
IsoDateHourEarlier(t, tz) == (AbsHour(t) - tz - 1) \div 24
\* timestamps in call order: the clock has advanced
After(t, u) ==
    \/ AbsHour(t) > AbsHour(u)
    \/ AbsHour(t) = AbsHour(u) /\ t.minute > u.minute

----------------------------------------------------------------------------
(* Configuration: DEFAULT_CONFIG, the region presets and mergeConfig *)

\* a minSoc that is not provided
NoMinSoc == -1

DEFAULT_CONFIG ==
    [ measurementIntervalMinutes |-> 60,
      singlePeakMode |-> FALSE,
      annualBillingEnabled |-> FALSE,
      rollingMonths |-> 12,
      peakCount |-> 3,
      onePeakPerDay |-> TRUE,
      peakHoursStart |-> 7,
      peakHoursEnd |-> 21,
      weekdaysOnly |-> FALSE,
      nightDiscount |-> FALSE,
      peakSeasonOnly |-> TRUE,
      peakSeasonStart |-> 11,
      peakSeasonEnd |-> 3,
      minimumLimitKw |-> Num(4),
      headroomKw |-> Rat(3, 10),
      learningMode |-> "learning",
      previousMonthCarryover |-> 80,
      dynamicHeadroom |->
          [ enabled |-> FALSE,
            rules |-> << [socLessThan |-> 20, headroomKw |-> Num(1)],
                         [socLessThan |-> 80, headroomKw |-> Rat(1, 2)],
                         [socLessThan |-> 101, headroomKw |-> Rat(1, 5)] >> ],
      phases |-> 3,
      gridVoltage |-> 230,
      maxBreakerCurrent |-> Num(25),
      batteryEnabled |-> FALSE,
      batteryCapacityWh |-> Num(10000),
      maxChargeRateW |-> Num(3000),
      socBuffer |-> 20,
      batteryBalancing |->
          [ enabled |-> FALSE, socThreshold |-> 95, targetSoc |-> 100,
            holdHours |-> 2, startTime |-> 0, endTime |-> 6 ],
      forecastSource |-> "none",
      morningPeakStart |-> 6,
      morningPeakEnd |-> 9,
      morningPeakWeight |-> Rat(3, 10),
      eveningPeakStart |-> 17,
      eveningPeakEnd |-> 21,
      eveningPeakWeight |-> Num(1),
      budgetBuffer |-> 20,
      downtimeDetection |-> [enabled |-> TRUE, triggerHours |-> 2, action |-> "log"],
      \* a key of the user's configuration that mergeConfig passes through; the
      \* defaults do not have it
      minSoc |-> NoMinSoc ]

\* REGION_PRESETS.sweden / .belgium laid over the defaults, as mergeConfig does
SwedenConfig ==
    [DEFAULT_CONFIG EXCEPT
        !.measurementIntervalMinutes = 60, !.singlePeakMode = FALSE,
        !.annualBillingEnabled = FALSE, !.peakCount = 3, !.onePeakPerDay = TRUE,
        !.peakHoursStart = 7, !.peakHoursEnd = 21, !.weekdaysOnly = FALSE,
        !.nightDiscount = FALSE, !.peakSeasonOnly = TRUE,
        !.peakSeasonStart = 11, !.peakSeasonEnd = 3]

BelgiumConfig ==
    [DEFAULT_CONFIG EXCEPT
        !.measurementIntervalMinutes = 15, !.singlePeakMode = TRUE,
        !.annualBillingEnabled = TRUE, !.rollingMonths = 12, !.peakCount = 1,
        !.onePeakPerDay = FALSE, !.peakHoursStart = 0, !.peakHoursEnd = 24,
        !.weekdaysOnly = FALSE, !.nightDiscount = FALSE, !.peakSeasonOnly = FALSE]

----------------------------------------------------------------------------
(* Engine state *)

\* a nullable object is a sequence of length 0 (null) or 1
NoObj == << >>
Obj(r) == <<r>>
IsObj(o) == Len(o) = 1
Val(o) == o[1]

NoHour == -1
NoMonth == -1

createInitialState ==
    [ currentMonth |-> NoMonth,
      peaks |-> << >>,
      currentHour |-> NoHour,
      currentHourSum |-> Num(0),
      currentHourSamples |-> 0,
      lastOutputLimitA |-> Null,
      previousMonthPeakAvgW |-> Null,
      currentInterval |-> NoObj,
      currentIntervalSum |-> Num(0),
      currentIntervalSamples |-> 0,
      currentMonthPeak |-> NoObj,
      monthlyPeaks |-> << >>,
      currentForecast |-> NoObj,
      periodEnergyUsed |-> Obj([k \in {} |-> Num(0)]),
      forecastDate |-> NoObj,
      historicalData |-> [d \in {} |-> NoObj],
      balancingStartTime |-> NoObj,
      isBalancing |-> FALSE ]

----------------------------------------------------------------------------
(* Clock/calendar predicates *)

isInPeakSeason(month, cfg) ==
    IF ~cfg.peakSeasonOnly THEN TRUE
    ELSE IF cfg.peakSeasonStart <= cfg.peakSeasonEnd
         THEN month >= cfg.peakSeasonStart /\ month <= cfg.peakSeasonEnd
         ELSE month >= cfg.peakSeasonStart \/ month <= cfg.peakSeasonEnd

isInPeakHours(hour, dayOfWeek, month, cfg) ==
    IF ~isInPeakSeason(month, cfg) THEN FALSE
    ELSE IF cfg.weekdaysOnly /\ (dayOfWeek = 0 \/ dayOfWeek = 6) THEN FALSE
    ELSE hour >= cfg.peakHoursStart /\ hour < cfg.peakHoursEnd

isNightHours(hour) == hour >= 22 \/ hour < 6

\* 'YYYY-MM-DDTHH:MM' of the interval's start, in UTC as toISOString prints it;
\* the minutes are floored on the local clock
getIntervalId(t, tz, intervalMinutes) ==
    <<UtcDay(t, tz), UtcHour(t, tz), (getMinutes(t) \div intervalMinutes) * intervalMinutes>>

getHourFromIntervalId(intervalId) == intervalId[2]
\* intervalId.split('T')[0]
DateOfIntervalId(intervalId) == intervalId[1]

wattsToAmps(watts, cfg) == RDiv(watts, Num(cfg.phases * cfg.gridVoltage))

----------------------------------------------------------------------------
(* Peak registry *)

Min2(a, b) == IF a < b THEN a ELSE b

\* Array.prototype.slice(0, count)
SliceFirst(seq, count) == SubSeq(seq, 1, Min2(count, Len(seq)))
\* Array.prototype.slice(-count); slice(-0) is slice(0), the whole array
SliceLast(seq, count) ==
    IF count = 0 \/ count >= Len(seq) THEN seq
    ELSE SubSeq(seq, Len(seq) - count + 1, Len(seq))

\* findIndex over the tests' outcomes, one per element: the index of the first
\* TRUE, 0 when there is none (findIndex's -1)
FindIndex(hits) ==
    IF \E i \in 1..Len(hits) : hits[i]
    THEN CHOOSE i \in 1..Len(hits) : hits[i] /\ \A j \in 1..(i - 1) : ~hits[j]
    ELSE 0

RECURSIVE SumEffective(_)
SumEffective(seq) ==
    IF seq = << >> THEN Num(0)
    ELSE RAdd(SumEffective(SubSeq(seq, 1, Len(seq) - 1)), seq[Len(seq)].effective)

\* peaks.sort((a, b) => b.effective - a.effective): a stable sort, so an entry
\* stays behind the entries of equal effective value that preceded it
RECURSIVE InsertDesc(_, _)
InsertDesc(seq, x) ==
    IF seq = << >> THEN <<x>>
    ELSE IF RGt(x.effective, Head(seq).effective) THEN <<x>> \o seq
    ELSE <<Head(seq)>> \o InsertDesc(Tail(seq), x)

RECURSIVE SortDesc(_)
SortDesc(seq) ==
    IF seq = << >> THEN << >>
    ELSE InsertDesc(SortDesc(SubSeq(seq, 1, Len(seq) - 1)), seq[Len(seq)])

\* a single-peak record that a tie replaces
recordSinglePeak_ReplaceOnTie(st, intervalId, value, effective) ==
    IF ~IsObj(st.currentMonthPeak) \/ RGe(effective, Val(st.currentMonthPeak).effective)
    THEN [ currentMonthPeak |->
               Obj([ date |-> DateOfIntervalId(intervalId),
                     time |-> <<intervalId[2], intervalId[3]>>,
                     intervalId |-> intervalId,
                     value |-> value,
                     effective |-> effective ]),
           ret |-> "updated" ]
    ELSE [ currentMonthPeak |-> st.currentMonthPeak, ret |-> "kept" ]

\* recordSinglePeak: the new currentMonthPeak and the returned string
recordSinglePeak(st, intervalId, value, effective) ==
    IF ~IsObj(st.currentMonthPeak) \/ RGt(effective, Val(st.currentMonthPeak).effective)
    THEN [ currentMonthPeak |->
               Obj([ date |-> DateOfIntervalId(intervalId),
                     time |-> <<intervalId[2], intervalId[3]>>,
                     intervalId |-> intervalId,
                     value |-> value,
                     effective |-> effective ]),
           ret |-> "updated" ]
    ELSE [ currentMonthPeak |-> st.currentMonthPeak, ret |-> "kept" ]

\* state.currentMonthPeak?.effective || 0
CurrentPeakOrZero(st) ==
    IF IsObj(st.currentMonthPeak)
          /\ IsNum(Val(st.currentMonthPeak).effective)
          /\ Val(st.currentMonthPeak).effective # Num(0)
    THEN Val(st.currentMonthPeak).effective
    ELSE Num(0)

\* a store that keeps the history as it is
storeMonthlyPeak_Nothing(st, cfg, year, month) == st.monthlyPeaks

\* a store that trims the history from its end, dropping the newest entry
storeMonthlyPeak_KeepFirst(st, cfg, year, month) ==
    IF ~cfg.annualBillingEnabled THEN st.monthlyPeaks
    ELSE LET peakW == CurrentPeakOrZero(st)
             stored == Append(st.monthlyPeaks, [month |-> <<year, month>>, peakW |-> peakW])
         IN  IF peakW = Num(0) THEN st.monthlyPeaks
             ELSE SliceFirst(stored, cfg.rollingMonths)

\* storeMonthlyPeak: the new state.monthlyPeaks; a month key is <<year, month>>
storeMonthlyPeak(st, cfg, year, month) ==
    IF ~cfg.annualBillingEnabled THEN st.monthlyPeaks
    ELSE LET peakW == CurrentPeakOrZero(st)
             monthStr == <<year, month>>
             existingIdx == FindIndex([i \in 1..Len(st.monthlyPeaks) |->
                                          st.monthlyPeaks[i].month = monthStr])
             stored == IF existingIdx > 0
                       THEN [st.monthlyPeaks EXCEPT ![existingIdx].peakW = peakW]
                       ELSE Append(st.monthlyPeaks, [month |-> monthStr, peakW |-> peakW])
         IN  IF peakW = Num(0) THEN st.monthlyPeaks
             ELSE IF Len(stored) > cfg.rollingMonths
                  THEN SliceLast(stored, cfg.rollingMonths)
                  ELSE stored

RECURSIVE SumPeakW(_)
SumPeakW(seq) ==
    IF seq = << >> THEN Num(0)
    ELSE RAdd(SumPeakW(SubSeq(seq, 1, Len(seq) - 1)), seq[Len(seq)].peakW)

calculateRollingAverage(st, cfg) ==
    IF ~cfg.annualBillingEnabled \/ Len(st.monthlyPeaks) = 0 THEN Num(0)
    ELSE LET months == SliceLast(st.monthlyPeaks, cfg.rollingMonths)
         IN  RDiv(SumPeakW(months), Num(Len(months)))

\* a recordPeak that replaces the day's entry whatever the new value is
recordPeak_AlwaysReplace(peaks, cfg, date, hour, value, effective) ==
    LET idx == IF cfg.onePeakPerDay
               THEN FindIndex([i \in 1..Len(peaks) |-> peaks[i].date = date])
               ELSE 0
        entry == [date |-> date, hour |-> hour, value |-> value, effective |-> effective]
    IN  IF idx > 0
        THEN [peaks |-> [peaks EXCEPT ![idx] = entry], ret |-> "updated"]
        ELSE [peaks |-> SortDesc(Append(peaks, entry)), ret |-> "added"]

\* a recordPeak that never trims the list
recordPeak_NoTrim(peaks, cfg, date, hour, value, effective) ==
    LET idx == IF cfg.onePeakPerDay
               THEN FindIndex([i \in 1..Len(peaks) |-> peaks[i].date = date])
               ELSE 0
        entry == [date |-> date, hour |-> hour, value |-> value, effective |-> effective]
    IN  IF idx > 0
        THEN IF RGt(effective, peaks[idx].effective)
             THEN [peaks |-> [peaks EXCEPT ![idx] = entry], ret |-> "updated"]
             ELSE [peaks |-> peaks, ret |-> "kept"]
        ELSE [peaks |-> SortDesc(Append(peaks, entry)), ret |-> "added"]

\* recordPeak: the new state.peaks and the returned string
recordPeak(peaks, cfg, date, hour, value, effective) ==
    LET idx == IF cfg.onePeakPerDay
               THEN FindIndex([i \in 1..Len(peaks) |-> peaks[i].date = date])
               ELSE 0
        entry == [date |-> date, hour |-> hour, value |-> value, effective |-> effective]
        sorted == SortDesc(Append(peaks, entry))
    IN  IF idx > 0
        THEN IF RGt(effective, peaks[idx].effective)
             THEN [peaks |-> [peaks EXCEPT ![idx] = entry], ret |-> "updated"]
             ELSE [peaks |-> peaks, ret |-> "kept"]
        ELSE [ peaks |-> IF ~cfg.onePeakPerDay /\ Len(sorted) > cfg.peakCount * 3
                         THEN SliceFirst(sorted, cfg.peakCount * 3)
                         ELSE sorted,
               ret |-> "added" ]

getTopPeaks(st, count) == SliceFirst(st.peaks, count)

calculatePeakAverage(st, peakCount) ==
    LET topPeaks == getTopPeaks(st, peakCount)
    IN  IF Len(topPeaks) = 0 THEN Num(0)
        ELSE RDiv(SumEffective(topPeaks), Num(Min2(Len(topPeaks), peakCount)))

----------------------------------------------------------------------------
(* Limit calculator *)

\* a battery state of the caller: null, or {soc, minSoc}; a soc that is not of
\* type number is NonNumericSoc
NonNumericSoc == -1

calculateDynamicHeadroomW_AboveThreshold(cfg, batteryState) ==
    LET fixedHeadroomW == RMul(cfg.headroomKw, Num(1000))
        rules == cfg.dynamicHeadroom.rules
    IN  IF ~cfg.dynamicHeadroom.enabled \/ ~IsObj(batteryState)
              \/ Val(batteryState).soc = NonNumericSoc
        THEN fixedHeadroomW
        ELSE LET soc == Val(batteryState).soc
                 i == FindIndex([k \in 1..Len(rules) |-> soc > rules[k].socLessThan])
             IN  IF i > 0 THEN RMul(rules[i].headroomKw, Num(1000)) ELSE fixedHeadroomW
calculateDynamicHeadroomW(cfg, batteryState) ==
    LET fixedHeadroomW == RMul(cfg.headroomKw, Num(1000))
        rules == cfg.dynamicHeadroom.rules
    IN  IF ~cfg.dynamicHeadroom.enabled \/ ~IsObj(batteryState)
              \/ Val(batteryState).soc = NonNumericSoc
        THEN fixedHeadroomW
        ELSE LET soc == Val(batteryState).soc
                 i == FindIndex([k \in 1..Len(rules) |-> soc < rules[k].socLessThan])
             IN  IF i > 0 THEN RMul(rules[i].headroomKw, Num(1000)) ELSE fixedHeadroomW

\* a carryover that takes the whole of the previous month's average
CarryoverLimitW_Whole(st, cfg) == st.previousMonthPeakAvgW

\* state.previousMonthPeakAvgW * (config.previousMonthCarryover / 100)
CarryoverLimitW(st, cfg) ==
    RMul(st.previousMonthPeakAvgW, RDiv(Num(cfg.previousMonthCarryover), Num(100)))

calculateTargetLimit_NoHeadroom(st, cfg, batteryState) ==
    LET topPeaks == getTopPeaks(st, cfg.peakCount)
        minimumLimitW == RMul(cfg.minimumLimitKw, Num(1000))
        headroomW == calculateDynamicHeadroomW(cfg, batteryState)
    IN  IF Len(topPeaks) < cfg.peakCount
        THEN IF cfg.learningMode = "carryover" /\ RGt(st.previousMonthPeakAvgW, Num(0))
             THEN [ targetLimitW |-> RMax(RSub(CarryoverLimitW(st, cfg), headroomW), minimumLimitW),
                    limitReason |-> "learning using carryover",
                    isLearning |-> TRUE,
                    usingCarryover |-> TRUE ]
             ELSE [ targetLimitW |-> Null,
                    limitReason |-> "learning",
                    isLearning |-> TRUE,
                    usingCarryover |-> FALSE ]
        ELSE LET lowestTopPeak == topPeaks[cfg.peakCount].effective
                 targetLimitW == RMax(lowestTopPeak, minimumLimitW)
             IN  [ targetLimitW |-> targetLimitW,
                   limitReason |-> IF targetLimitW = minimumLimitW
                                   THEN "min (peaks below min)"
                                   ELSE "peak - headroom",
                   isLearning |-> FALSE,
                   usingCarryover |-> FALSE ]
calculateTargetLimit(st, cfg, batteryState) ==
    LET topPeaks == getTopPeaks(st, cfg.peakCount)
        minimumLimitW == RMul(cfg.minimumLimitKw, Num(1000))
        headroomW == calculateDynamicHeadroomW(cfg, batteryState)
    IN  IF Len(topPeaks) < cfg.peakCount
        THEN IF cfg.learningMode = "carryover" /\ RGt(st.previousMonthPeakAvgW, Num(0))
             THEN [ targetLimitW |-> RMax(RSub(CarryoverLimitW(st, cfg), headroomW), minimumLimitW),
                    limitReason |-> "learning using carryover",
                    isLearning |-> TRUE,
                    usingCarryover |-> TRUE ]
             ELSE [ targetLimitW |-> Null,
                    limitReason |-> "learning",
                    isLearning |-> TRUE,
                    usingCarryover |-> FALSE ]
        ELSE LET lowestTopPeak == topPeaks[cfg.peakCount].effective
                 targetLimitW == RMax(RSub(lowestTopPeak, headroomW), minimumLimitW)
             IN  [ targetLimitW |-> targetLimitW,
                   limitReason |-> IF targetLimitW = minimumLimitW
                                   THEN "min (peaks below min)"
                                   ELSE "peak - headroom",
                   isLearning |-> FALSE,
                   usingCarryover |-> FALSE ]

\* an output limit that does not restrict at all while learning
calculateOutputLimitA_OpenWhileLearning(targetLimitW, cfg, isLearning, usingCarryover) ==
    IF isLearning /\ ~usingCarryover THEN cfg.maxBreakerCurrent
    ELSE IF IsNull(targetLimitW) THEN cfg.maxBreakerCurrent
    ELSE RoundTenth(RMin(wattsToAmps(targetLimitW, cfg), cfg.maxBreakerCurrent))

calculateOutputLimitA(targetLimitW, cfg, isLearning, usingCarryover) ==
    LET minimumLimitW == RMul(cfg.minimumLimitKw, Num(1000))
    IN  IF isLearning /\ ~usingCarryover
        THEN RMin(wattsToAmps(minimumLimitW, cfg), cfg.maxBreakerCurrent)
        ELSE IF IsNull(targetLimitW) THEN cfg.maxBreakerCurrent
        ELSE RoundTenth(RMin(wattsToAmps(targetLimitW, cfg), cfg.maxBreakerCurrent))

----------------------------------------------------------------------------
(* processGridPower, in the order of its sections *)

\* config.measurementIntervalMinutes || 60
IntervalMinutes(cfg) ==
    IF cfg.measurementIntervalMinutes = 0 THEN 60 ELSE cfg.measurementIntervalMinutes
UseIntervalTracking(cfg) == IntervalMinutes(cfg) # 60

\* Math.max(0, gridPowerW || 0): NaN and null are falsy
ImportPower_Unclamped(gridPowerW) ==
    IF IsNum(gridPowerW) THEN gridPowerW ELSE Num(0)
ImportPower(gridPowerW) ==
    IF IsNum(gridPowerW) THEN RMax(Num(0), gridPowerW) ELSE Num(0)

\* "Check for month reset"
IsMonthReset(st, t) == st.currentMonth # NoMonth /\ st.currentMonth # getMonth(t)

\* a reset that forgets to clear the ranked list
ResetForNewMonth_KeepPeaks(st, t) ==
    [ st EXCEPT !.currentMonth = getMonth(t),
                !.currentHour = NoHour,
                !.currentHourSum = Num(0),
                !.currentHourSamples = 0,
                !.currentInterval = NoObj,
                !.currentIntervalSum = Num(0),
                !.currentIntervalSamples = 0,
                !.currentMonthPeak = NoObj ]

\* "Reset state for new month"
ResetForNewMonth(st, t) ==
    [ st EXCEPT !.currentMonth = getMonth(t),
                !.peaks = << >>,
                !.currentHour = NoHour,
                !.currentHourSum = Num(0),
                !.currentHourSamples = 0,
                !.currentInterval = NoObj,
                !.currentIntervalSum = Num(0),
                !.currentIntervalSamples = 0,
                !.currentMonthPeak = NoObj ]

\* the month-reset block followed by "Initialize currentMonth on first run"
AfterMonthCheck(st, cfg, t) ==
    IF IsMonthReset(st, t)
    THEN LET prevMonth == IF st.currentMonth = 0 THEN 12 ELSE st.currentMonth
             prevYear == IF st.currentMonth = 0 THEN getFullYear(t) - 1 ELSE getFullYear(t)
         IN  ResetForNewMonth(
                 [ st EXCEPT
                     !.monthlyPeaks =
                         IF cfg.singlePeakMode /\ cfg.annualBillingEnabled /\ IsObj(st.currentMonthPeak)
                         THEN storeMonthlyPeak(st, cfg, prevYear, prevMonth)
                         ELSE @,
                     !.previousMonthPeakAvgW =
                         IF Len(st.peaks) > 0 THEN calculatePeakAverage(st, cfg.peakCount)
                         ELSE IF cfg.singlePeakMode /\ IsObj(st.currentMonthPeak)
                              THEN Val(st.currentMonthPeak).effective
                              ELSE @ ],
                 t)
    ELSE IF st.currentMonth = NoMonth THEN [st EXCEPT !.currentMonth = getMonth(t)]
    ELSE st

\* what a completed period contributes: "skipped", or the registry's answer
SubmitPeak(st, cfg, shouldRecordPeak, intervalId, date, hour, avg, effective) ==
    IF ~shouldRecordPeak
    THEN [state |-> st, ret |-> "skipped"]
    ELSE IF cfg.singlePeakMode
    THEN LET r == recordSinglePeak(st, intervalId, avg, effective)
         IN  [state |-> [st EXCEPT !.currentMonthPeak = r.currentMonthPeak], ret |-> r.ret]
    ELSE LET r == recordPeak(st.peaks, cfg, date, hour, avg, effective)
         IN  [state |-> [st EXCEPT !.peaks = r.peaks], ret |-> r.ret]

\* "Interval-based tracking": the state after it and result.intervalCompleted
TrackInterval(st, cfg, t, tz, power) ==
    LET currentIntervalId == getIntervalId(t, tz, IntervalMinutes(cfg))
        month == getMonth(t) + 1
        dayOfWeek == getDay(t)
        changed == st.currentInterval # Obj(currentIntervalId)
        completes == IsObj(st.currentInterval) /\ changed /\ st.currentIntervalSamples > 0
        old == Val(st.currentInterval)
        intervalAvg == RDiv(st.currentIntervalSum, Num(st.currentIntervalSamples))
        completedHour == getHourFromIntervalId(old)
        wasNight == isNightHours(completedHour)
        effectiveValue == IF cfg.nightDiscount /\ wasNight
                          THEN RMul(intervalAvg, Rat(1, 2)) ELSE intervalAvg
        shouldRecordPeak == isInPeakHours(completedHour, dayOfWeek, month, cfg)
                                /\ isInPeakSeason(month, cfg)
        sub == IF completes
               THEN SubmitPeak(st, cfg, shouldRecordPeak, old, DateOfIntervalId(old),
                               completedHour, intervalAvg, effectiveValue)
               ELSE [state |-> st, ret |-> "none"]
        s1 == sub.state
        s2 == IF changed
              THEN [s1 EXCEPT !.currentInterval = Obj(currentIntervalId),
                              !.currentIntervalSum = Num(0),
                              !.currentIntervalSamples = 0]
              ELSE s1
    IN  [ state |-> [s2 EXCEPT !.currentIntervalSum = RAdd(@, power),
                               !.currentIntervalSamples = @ + 1],
          intervalCompleted |->
              IF completes
              THEN Obj([ intervalId |-> old, hour |-> completedHour, avgW |-> intervalAvg,
                         effectiveW |-> effectiveValue, wasNight |-> wasNight,
                         result |-> sub.ret, peakUpdated |-> sub.ret = "updated" ])
              ELSE NoObj ]

TrackHour_GapSkipsHour(st, cfg, t, tz, power) ==
    LET currentHour == getHours(t)
        month == getMonth(t) + 1
        dayOfWeek == getDay(t)
        changed == st.currentHour # currentHour
        transition == st.currentHour # NoHour /\ changed
        dd == cfg.downtimeDetection
        hourDiff == (currentHour - st.currentHour + 24) % 24
        downtime == IF transition /\ dd.enabled /\ dd.action # "ignore" /\ hourDiff >= dd.triggerHours
                    THEN Obj([fromHour |-> st.currentHour, toHour |-> currentHour,
                              missedHours |-> hourDiff - 1])
                    ELSE NoObj
        completes == transition /\ st.currentHourSamples > 0 /\ downtime = NoObj
        hourlyAvg == RDiv(st.currentHourSum, Num(st.currentHourSamples))
        wasNight == isNightHours(st.currentHour)
        effectiveValue == IF cfg.nightDiscount /\ wasNight
                          THEN RMul(hourlyAvg, Rat(1, 2)) ELSE hourlyAvg
        completedHourDate == IF st.currentHour > currentHour
                             THEN IsoDateHourEarlier(t, tz) ELSE IsoDate(t, tz)
        shouldRecordPeak == isInPeakHours(st.currentHour, dayOfWeek, month, cfg)
                                /\ isInPeakSeason(month, cfg)
        sub == IF completes
               THEN SubmitPeak(st, cfg, shouldRecordPeak,
                               <<completedHourDate, st.currentHour, 0>>,
                               completedHourDate, st.currentHour, hourlyAvg, effectiveValue)
               ELSE [state |-> st, ret |-> "none"]
        s1 == sub.state
        s2 == IF changed
              THEN [s1 EXCEPT !.currentHour = currentHour,
                              !.currentHourSum = Num(0),
                              !.currentHourSamples = 0]
              ELSE s1
    IN  [ state |-> [s2 EXCEPT !.currentHourSum = RAdd(@, power),
                               !.currentHourSamples = @ + 1],
          hourCompleted |->
              IF completes
              THEN Obj([ hour |-> st.currentHour, avgW |-> hourlyAvg,
                         effectiveW |-> effectiveValue, wasNight |-> wasNight,
                         result |-> sub.ret ])
              ELSE NoObj,
          downtime |-> downtime ]
\* "Hourly tracking": the state after it, result.hourCompleted and result.downtime
TrackHour(st, cfg, t, tz, power) ==
    LET currentHour == getHours(t)
        month == getMonth(t) + 1
        dayOfWeek == getDay(t)
        changed == st.currentHour # currentHour
        transition == st.currentHour # NoHour /\ changed
        dd == cfg.downtimeDetection
        hourDiff == (currentHour - st.currentHour + 24) % 24
        downtime == IF transition /\ dd.enabled /\ dd.action # "ignore" /\ hourDiff >= dd.triggerHours
                    THEN Obj([fromHour |-> st.currentHour, toHour |-> currentHour,
                              missedHours |-> hourDiff - 1])
                    ELSE NoObj
        completes == transition /\ st.currentHourSamples > 0
        hourlyAvg == RDiv(st.currentHourSum, Num(st.currentHourSamples))
        wasNight == isNightHours(st.currentHour)
        effectiveValue == IF cfg.nightDiscount /\ wasNight
                          THEN RMul(hourlyAvg, Rat(1, 2)) ELSE hourlyAvg
        completedHourDate == IF st.currentHour > currentHour
                             THEN IsoDateHourEarlier(t, tz) ELSE IsoDate(t, tz)
        shouldRecordPeak == isInPeakHours(st.currentHour, dayOfWeek, month, cfg)
                                /\ isInPeakSeason(month, cfg)
        sub == IF completes
               THEN SubmitPeak(st, cfg, shouldRecordPeak,
                               <<completedHourDate, st.currentHour, 0>>,
                               completedHourDate, st.currentHour, hourlyAvg, effectiveValue)
               ELSE [state |-> st, ret |-> "none"]
        s1 == sub.state
        s2 == IF changed
              THEN [s1 EXCEPT !.currentHour = currentHour,
                              !.currentHourSum = Num(0),
                              !.currentHourSamples = 0]
              ELSE s1
    IN  [ state |-> [s2 EXCEPT !.currentHourSum = RAdd(@, power),
                               !.currentHourSamples = @ + 1],
          hourCompleted |->
              IF completes
              THEN Obj([ hour |-> st.currentHour, avgW |-> hourlyAvg,
                         effectiveW |-> effectiveValue, wasNight |-> wasNight,
                         result |-> sub.ret ])
              ELSE NoObj,
          downtime |-> downtime ]

\* "Calculate limits": single-peak branch of processGridPower
SinglePeakTargetLimit(st, cfg, batteryState) ==
    LET currentPeakW == CurrentPeakOrZero(st)
        minimumLimitW == RMul(cfg.minimumLimitKw, Num(1000))
        headroomW == calculateDynamicHeadroomW(cfg, batteryState)
    IN  IF currentPeakW = Num(0)
        THEN IF cfg.learningMode = "carryover" /\ RGt(st.previousMonthPeakAvgW, Num(0))
             THEN [ targetLimitW |-> RMax(RSub(CarryoverLimitW(st, cfg), headroomW), minimumLimitW),
                    limitReason |-> "learning using carryover",
                    isLearning |-> TRUE,
                    usingCarryover |-> TRUE ]
             ELSE [ targetLimitW |-> Null,
                    limitReason |-> "learning (no peaks yet)",
                    isLearning |-> TRUE,
                    usingCarryover |-> FALSE ]
        ELSE [ targetLimitW |-> RMax(RSub(currentPeakW, headroomW), minimumLimitW),
               limitReason |-> "single peak mode",
               isLearning |-> FALSE,
               usingCarryover |-> FALSE ]

\* "Calculate output limit", with the final rounding to 0.1 A
OutputLimitA(cfg, t, lim) ==
    RoundTenth(
        IF ~isInPeakSeason(getMonth(t) + 1, cfg)
              \/ ~isInPeakHours(getHours(t), getDay(t), getMonth(t) + 1, cfg)
        THEN cfg.maxBreakerCurrent
        ELSE IF lim.isLearning
             THEN calculateOutputLimitA(lim.targetLimitW, cfg, TRUE, lim.usingCarryover)
             ELSE calculateOutputLimitA(lim.targetLimitW, cfg, FALSE, FALSE))

\* interval tracking when the interval is not 60 minutes, hourly tracking
\* otherwise: the state after it and what was completed
Track(st, cfg, t, tz, power) ==
    IF UseIntervalTracking(cfg)
    THEN LET ti == TrackInterval(st, cfg, t, tz, power)
         IN  [ state |-> ti.state,
               intervalCompleted |-> ti.intervalCompleted,
               hourCompleted |-> NoObj,
               downtime |-> NoObj ]
    ELSE LET th == TrackHour(st, cfg, t, tz, power)
         IN  [ state |-> th.state,
               intervalCompleted |-> NoObj,
               hourCompleted |-> th.hourCompleted,
               downtime |-> th.downtime ]

\* "Calculate current average (interval or hour)"
CurrentAvgW(st, cfg) ==
    IF UseIntervalTracking(cfg)
    THEN IF st.currentIntervalSamples > 0
         THEN RDiv(st.currentIntervalSum, Num(st.currentIntervalSamples))
         ELSE Num(0)
    ELSE IF st.currentHourSamples > 0
         THEN RDiv(st.currentHourSum, Num(st.currentHourSamples))
         ELSE Num(0)

\* "Calculate limits - use appropriate method based on mode"
TargetLimit(st, cfg, batteryState) ==
    IF cfg.singlePeakMode
    THEN SinglePeakTargetLimit(st, cfg, batteryState)
    ELSE calculateTargetLimit(st, cfg, batteryState)

\* "Build result object": st is the state the call found, s1 the state after the
\* month check, s2 the state the call leaves
ResultObj(st, s1, s2, cfg, t, tracked, lim, outputLimitA) ==
    LET reset == IsMonthReset(st, t)
        month == getMonth(t) + 1
    IN  [ monthReset |-> reset,
          previousPeakCount |-> IF reset THEN Len(st.peaks) ELSE -1,
          previousMonthPeakW |->
              IF reset /\ cfg.singlePeakMode /\ cfg.annualBillingEnabled /\ IsObj(st.currentMonthPeak)
              THEN Val(st.currentMonthPeak).effective ELSE Null,
          previousMonthPeakAvgW |->
              IF reset /\ (Len(st.peaks) > 0 \/ (cfg.singlePeakMode /\ IsObj(st.currentMonthPeak)))
              THEN s1.previousMonthPeakAvgW ELSE Null,
          intervalCompleted |-> tracked.intervalCompleted,
          hourCompleted |-> tracked.hourCompleted,
          downtime |-> tracked.downtime,
          inPeakSeason |-> isInPeakSeason(month, cfg),
          inPeakHours |-> isInPeakHours(getHours(t), getDay(t), month, cfg),
          isLearning |-> lim.isLearning,
          usingCarryover |-> lim.usingCarryover,
          currentHour |-> getHours(t),
          currentHourAvgW |-> CurrentAvgW(s2, cfg),
          targetLimitW |-> lim.targetLimitW,
          limitReason |-> lim.limitReason,
          outputLimitA |-> outputLimitA,
          outputChanged |-> outputLimitA # s2.lastOutputLimitA,
          peakAvgW |-> IF cfg.singlePeakMode THEN CurrentPeakOrZero(s2)
                       ELSE calculatePeakAverage(s2, cfg.peakCount),
          topPeaks |-> IF cfg.singlePeakMode THEN << >> ELSE getTopPeaks(s2, cfg.peakCount),
          currentMonthPeak |-> IF cfg.singlePeakMode THEN s2.currentMonthPeak ELSE NoObj,
          rollingAverageW |-> IF cfg.annualBillingEnabled
                              THEN calculateRollingAverage(s2, cfg) ELSE Null,
          monthlyPeaksCount |-> IF cfg.annualBillingEnabled THEN Len(s2.monthlyPeaks) ELSE -1 ]

\* the whole call, section after section: it mutates state and returns result
processGridPower(gridPowerW, t, batteryState) ==
    \E s1 \in { AfterMonthCheck(state, config, t) } :
    \E tracked \in { Track(s1, config, t, tzOffset, ImportPower(gridPowerW)) } :
    \E lim \in { TargetLimit(tracked.state, config, batteryState) } :
    \E outputLimitA \in { OutputLimitA(config, t, lim) } :
        /\ state' = tracked.state
        /\ result' = Obj(ResultObj(state, s1, tracked.state, config, t, tracked, lim, outputLimitA))
        /\ now' = t
        /\ UNCHANGED <<config, tzOffset>>

----------------------------------------------------------------------------
(* Battery charging functions.  A battery state is null or a record          *)
(* [soc, minSoc] of whole percentages; a soc that is not of type number is   *)
(* NonNumericSoc and a minSoc that is not provided is NoMinSoc.              *)

\* Date.getTime(), in minutes instead of milliseconds
getTime(t) == AbsHour(t) * 60 + t.minute
\* Date.getDay() of the day that starts d days after day 0
DayOfWeek(d) == getDay(Stamp(d, 0, 0))

\* hours until the next peak window opens, at least 0.5
calculateHoursUntilPeak_ToWindowEnd(t, cfg) ==
    IF ~isInPeakSeason(getMonth(t) + 1, cfg) THEN Num(24 * 7)
    ELSE LET today == t.day
             nextPeakDay == IF cfg.weekdaysOnly /\ DayOfWeek(today) = 6 THEN today + 2
                            ELSE IF cfg.weekdaysOnly /\ DayOfWeek(today) = 0 THEN today + 1
                            ELSE today
             firstStart == Stamp(nextPeakDay, cfg.peakHoursEnd, 0)
             tomorrow == nextPeakDay + 1
             nextDay == IF cfg.weekdaysOnly /\ DayOfWeek(tomorrow) \in {0, 6}
                        THEN tomorrow + (IF DayOfWeek(tomorrow) = 6 THEN 2 ELSE 1)
                        ELSE tomorrow
             nextPeakStart == IF getTime(t) > getTime(firstStart)
                              THEN Stamp(nextDay, cfg.peakHoursEnd, 0)
                              ELSE firstStart
             diffMinutes == getTime(nextPeakStart) - getTime(t)
         IN  RMax(Rat(diffMinutes, 60), Rat(1, 2))
calculateHoursUntilPeak_NoWeekendJump(t, cfg) ==
    IF ~isInPeakSeason(getMonth(t) + 1, cfg) THEN Num(24 * 7)
    ELSE LET today == t.day
             nextPeakDay == IF cfg.weekdaysOnly /\ DayOfWeek(today) = 6 THEN today + 2
                            ELSE IF cfg.weekdaysOnly /\ DayOfWeek(today) = 0 THEN today + 1
                            ELSE today
             firstStart == Stamp(nextPeakDay, cfg.peakHoursStart, 0)
             tomorrow == nextPeakDay + 1
             nextDay == tomorrow
             nextPeakStart == IF getTime(t) > getTime(firstStart)
                              THEN Stamp(nextDay, cfg.peakHoursStart, 0)
                              ELSE firstStart
             diffMinutes == getTime(nextPeakStart) - getTime(t)
         IN  RMax(Rat(diffMinutes, 60), Rat(1, 2))
calculateHoursUntilPeak(t, cfg) ==
    IF ~isInPeakSeason(getMonth(t) + 1, cfg) THEN Num(24 * 7)
    ELSE LET today == t.day
             nextPeakDay == IF cfg.weekdaysOnly /\ DayOfWeek(today) = 6 THEN today + 2
                            ELSE IF cfg.weekdaysOnly /\ DayOfWeek(today) = 0 THEN today + 1
                            ELSE today
             firstStart == Stamp(nextPeakDay, cfg.peakHoursStart, 0)
             tomorrow == nextPeakDay + 1
             nextDay == IF cfg.weekdaysOnly /\ DayOfWeek(tomorrow) \in {0, 6}
                        THEN tomorrow + (IF DayOfWeek(tomorrow) = 6 THEN 2 ELSE 1)
                        ELSE tomorrow
             nextPeakStart == IF getTime(t) > getTime(firstStart)
                              THEN Stamp(nextDay, cfg.peakHoursStart, 0)
                              ELSE firstStart
             diffMinutes == getTime(nextPeakStart) - getTime(t)
         IN  RMax(Rat(diffMinutes, 60), Rat(1, 2))

\* Math.round(x / 10) * 10
RoundTen_Down(x) == RMul(Num(RFloor(RDiv(x, Num(10)))), Num(10))
RoundTen(x) == RMul(MathRound(RDiv(x, Num(10))), Num(10))

\* "Battery Balancing Logic": the state after it, whether the call returns from
\* inside it, and the rate it recommends then
BalancingLogic_HoldInclusive(st, cfg, soc, t) ==
    LET bc == cfg.batteryBalancing
        currentHour == getHours(t)
        isBalancingWindow == currentHour >= bc.startTime /\ currentHour < bc.endTime
        enoughSocToStartBalancing == soc >= bc.socThreshold
        start == IF IsObj(st.balancingStartTime) THEN Val(st.balancingStartTime) ELSE getTime(t)
        hoursHolding == Rat(getTime(t) - start, 60)
    IN  IF ~(bc.enabled /\ cfg.batteryEnabled)
        THEN [state |-> st, returns |-> FALSE, rate |-> Num(0), reason |-> "none"]
        ELSE IF ~(st.isBalancing \/ (isBalancingWindow /\ enoughSocToStartBalancing))
        THEN [ state |-> [st EXCEPT !.isBalancing = FALSE, !.balancingStartTime = NoObj],
               returns |-> FALSE, rate |-> Num(0), reason |-> "none" ]
        ELSE IF soc < bc.targetSoc
        THEN [ state |-> [st EXCEPT !.isBalancing = TRUE, !.balancingStartTime = NoObj],
               returns |-> TRUE, rate |-> cfg.maxChargeRateW, reason |-> "balancing: charging" ]
        ELSE IF RLe(hoursHolding, Num(bc.holdHours))
        THEN [ state |-> [st EXCEPT !.isBalancing = TRUE, !.balancingStartTime = Obj(start)],
               returns |-> TRUE, rate |-> Num(0), reason |-> "balancing: holding" ]
        ELSE [ state |-> [st EXCEPT !.isBalancing = FALSE, !.balancingStartTime = NoObj],
               returns |-> FALSE, rate |-> Num(0), reason |-> "balancing: complete for this cycle" ]
BalancingLogic_AnyHour(st, cfg, soc, t) ==
    LET bc == cfg.batteryBalancing
        currentHour == getHours(t)
        isBalancingWindow == currentHour >= bc.startTime
        enoughSocToStartBalancing == soc >= bc.socThreshold
        start == IF IsObj(st.balancingStartTime) THEN Val(st.balancingStartTime) ELSE getTime(t)
        hoursHolding == Rat(getTime(t) - start, 60)
    IN  IF ~(bc.enabled /\ cfg.batteryEnabled)
        THEN [state |-> st, returns |-> FALSE, rate |-> Num(0), reason |-> "none"]
        ELSE IF ~(st.isBalancing \/ (isBalancingWindow /\ enoughSocToStartBalancing))
        THEN [ state |-> [st EXCEPT !.isBalancing = FALSE, !.balancingStartTime = NoObj],
               returns |-> FALSE, rate |-> Num(0), reason |-> "none" ]
        ELSE IF soc < bc.targetSoc
        THEN [ state |-> [st EXCEPT !.isBalancing = TRUE, !.balancingStartTime = NoObj],
               returns |-> TRUE, rate |-> cfg.maxChargeRateW, reason |-> "balancing: charging" ]
        ELSE IF RLt(hoursHolding, Num(bc.holdHours))
        THEN [ state |-> [st EXCEPT !.isBalancing = TRUE, !.balancingStartTime = Obj(start)],
               returns |-> TRUE, rate |-> Num(0), reason |-> "balancing: holding" ]
        ELSE [ state |-> [st EXCEPT !.isBalancing = FALSE, !.balancingStartTime = NoObj],
               returns |-> FALSE, rate |-> Num(0), reason |-> "balancing: complete for this cycle" ]
BalancingLogic(st, cfg, soc, t) ==
    LET bc == cfg.batteryBalancing
        currentHour == getHours(t)
        isBalancingWindow == currentHour >= bc.startTime /\ currentHour < bc.endTime
        enoughSocToStartBalancing == soc >= bc.socThreshold
        start == IF IsObj(st.balancingStartTime) THEN Val(st.balancingStartTime) ELSE getTime(t)
        hoursHolding == Rat(getTime(t) - start, 60)
    IN  IF ~(bc.enabled /\ cfg.batteryEnabled)
        THEN [state |-> st, returns |-> FALSE, rate |-> Num(0), reason |-> "none"]
        ELSE IF ~(st.isBalancing \/ (isBalancingWindow /\ enoughSocToStartBalancing))
        THEN [ state |-> [st EXCEPT !.isBalancing = FALSE, !.balancingStartTime = NoObj],
               returns |-> FALSE, rate |-> Num(0), reason |-> "none" ]
        ELSE IF soc < bc.targetSoc
        THEN [ state |-> [st EXCEPT !.isBalancing = TRUE, !.balancingStartTime = NoObj],
               returns |-> TRUE, rate |-> cfg.maxChargeRateW, reason |-> "balancing: charging" ]
        ELSE IF RLt(hoursHolding, Num(bc.holdHours))
        THEN [ state |-> [st EXCEPT !.isBalancing = TRUE, !.balancingStartTime = Obj(start)],
               returns |-> TRUE, rate |-> Num(0), reason |-> "balancing: holding" ]
        ELSE [ state |-> [st EXCEPT !.isBalancing = FALSE, !.balancingStartTime = NoObj],
               returns |-> FALSE, rate |-> Num(0), reason |-> "balancing: complete for this cycle" ]

\* "During peak hours in peak season: don't charge": balancing is left and the
\* recommendation is zero
PeakHoursDischarge_KeepBalancing(st, targetSocForPeakShaving) ==
    [ state |-> st,
      result |-> [ chargeRateW |-> Num(0), charging |-> FALSE,
                   reason |-> "peak hours - discharge mode",
                   targetSoc |-> Num(targetSocForPeakShaving),
                   hoursUntilPeak |-> Num(0), inPeakHours |-> TRUE,
                   balancingActive |-> FALSE ] ]
PeakHoursDischarge(st, targetSocForPeakShaving) ==
    [ state |-> [st EXCEPT !.isBalancing = FALSE, !.balancingStartTime = NoObj],
      result |-> [ chargeRateW |-> Num(0), charging |-> FALSE,
                   reason |-> "peak hours - discharge mode",
                   targetSoc |-> Num(targetSocForPeakShaving),
                   hoursUntilPeak |-> Num(0), inPeakHours |-> TRUE,
                   balancingActive |-> FALSE ] ]

\* "Validate battery state": the early return, which does not touch the state
NoBatteryData_ExitBalancing(st) ==
    [ state |-> [st EXCEPT !.isBalancing = FALSE, !.balancingStartTime = NoObj],
      result |-> [ chargeRateW |-> Num(0), charging |-> FALSE, reason |-> "no battery data",
                   targetSoc |-> Null, hoursUntilPeak |-> Null, inPeakHours |-> FALSE,
                   balancingActive |-> FALSE ] ]
NoBatteryData(st) ==
    [ state |-> st,
      result |-> [ chargeRateW |-> Num(0), charging |-> FALSE, reason |-> "no battery data",
                   targetSoc |-> Null, hoursUntilPeak |-> Null, inPeakHours |-> FALSE,
                   balancingActive |-> FALSE ] ]

\* the recommendation and the state the call leaves; fields a return statement
\* does not set are Null (numbers) or FALSE (inPeakHours)
calculateChargeRate(st, cfg, batteryState, t) ==
    IF ~IsObj(batteryState) \/ Val(batteryState).soc = NonNumericSoc
    THEN NoBatteryData(st)
    ELSE
    LET soc == Val(batteryState).soc
        minSoc == IF Val(batteryState).minSoc = NoMinSoc THEN 20 ELSE Val(batteryState).minSoc
        targetSocForPeakShaving == Min2(minSoc + cfg.socBuffer, 100)
        month == getMonth(t) + 1
        inPeakHours == isInPeakHours(getHours(t), getDay(t), month, cfg)
        inPeakSeason == isInPeakSeason(month, cfg)
        bal == BalancingLogic(st, cfg, soc, t)
        hoursUntilPeak == calculateHoursUntilPeak(t, cfg)
        energyDeficitWh == RMul(Rat(targetSocForPeakShaving - soc, 100), cfg.batteryCapacityWh)
        chargeRateW == RoundTen(RMin(RDiv(energyDeficitWh, hoursUntilPeak), cfg.maxChargeRateW))
    IN  IF inPeakHours /\ inPeakSeason
        THEN PeakHoursDischarge(st, targetSocForPeakShaving)
        ELSE IF bal.returns
        THEN [ state |-> bal.state,
               result |-> [ chargeRateW |-> RoundTen(bal.rate), charging |-> RGt(bal.rate, Num(0)),
                            reason |-> bal.reason,
                            targetSoc |-> Num(cfg.batteryBalancing.targetSoc),
                            hoursUntilPeak |-> Null, inPeakHours |-> FALSE,
                            balancingActive |-> TRUE ] ]
        ELSE IF soc >= targetSocForPeakShaving
        THEN [ state |-> bal.state,
               result |-> [ chargeRateW |-> Num(0), charging |-> FALSE, reason |-> "SOC sufficient",
                            targetSoc |-> Num(targetSocForPeakShaving),
                            hoursUntilPeak |-> Null, inPeakHours |-> FALSE,
                            balancingActive |-> FALSE ] ]
        ELSE [ state |-> bal.state,
               result |-> [ chargeRateW |-> chargeRateW, charging |-> RGt(chargeRateW, Num(0)),
                            reason |-> IF RGt(chargeRateW, Num(0))
                                       THEN "charging before peak" ELSE "no charging needed",
                            targetSoc |-> Num(targetSocForPeakShaving),
                            hoursUntilPeak |-> RoundTenth(hoursUntilPeak), inPeakHours |-> FALSE,
                            balancingActive |-> FALSE ] ]

\* the charge recommendation with enabled and available added, or null (no
\* object) when the battery is disabled; the state is the one the
\* recommendation leaves
getBatteryStatus(st, cfg, batteryState, t) ==
    IF ~cfg.batteryEnabled THEN [state |-> st, result |-> NoObj]
    ELSE LET chargeResult == calculateChargeRate(st, cfg, batteryState, t)
             r == chargeResult.result
         IN  [ state |-> chargeResult.state,
               result |->
                 Obj([ enabled |-> TRUE,
                       available |-> IsObj(batteryState)
                                        /\ Val(batteryState).soc # NonNumericSoc,
                       chargeRateW |-> r.chargeRateW, charging |-> r.charging,
                       reason |-> r.reason, targetSoc |-> r.targetSoc,
                       hoursUntilPeak |-> r.hoursUntilPeak, inPeakHours |-> r.inPeakHours,
                       balancingActive |-> r.balancingActive ]) ]

----------------------------------------------------------------------------
(* forecasting.js: the battery budget *)

\* p.weight || p.expectedPeakW: a missing or zero weight is falsy
WeightOrExpectedPeak(p) ==
    IF IsNull(p.weight) \/ p.weight = Num(0) \/ p.weight = NaN THEN p.expectedPeakW ELSE p.weight

RECURSIVE TotalWeight(_)
TotalWeight(periods) ==
    IF Len(periods) = 0 THEN Num(0)
    ELSE RAdd(TotalWeight(SubSeq(periods, 1, Len(periods) - 1)),
              WeightOrExpectedPeak(periods[Len(periods)]))

\* the forecast with budgetWh set on every period, and totalBudgetWh and
\* bufferWh on the forecast; a forecast without periods is returned as it is
allocateBudget(forecast, usableCapacityWh, bufferPercent) ==
    IF Len(forecast.periods) = 0 THEN forecast
    ELSE LET buffer == RMul(usableCapacityWh, RDiv(Num(bufferPercent), Num(100)))
             allocatable == RSub(usableCapacityWh, buffer)
             totalWeight == TotalWeight(forecast.periods)
             equalBudget == RDiv(allocatable, Num(Len(forecast.periods)))
         IN  [ forecast EXCEPT
                 !.periods =
                     [ i \in 1..Len(forecast.periods) |->
                         [ forecast.periods[i] EXCEPT !.budgetWh =
                             IF totalWeight = Num(0) THEN equalBudget
                             ELSE RMul(RDiv(WeightOrExpectedPeak(forecast.periods[i]),
                                            totalWeight),
                                       allocatable) ] ],
                 !.totalBudgetWh = allocatable,
                 !.bufferWh = buffer ]

\* x || 0 for a number that may be undefined
OrZero(x) == IF IsNum(x) THEN x ELSE Num(0)

\* a forecast period as the generators build it; budgetWh is set by
\* allocateBudget
Period(start, end, expectedPeakW, weight) ==
    [ start |-> start, end |-> end, expectedPeakW |-> expectedPeakW, weight |-> weight,
      budgetWh |-> Null ]
\* a forecast; totalBudgetWh and bufferWh are set by allocateBudget
Forecast(periods, source) ==
    [ periods |-> periods, source |-> source, totalBudgetWh |-> Null, bufferWh |-> Null ]

\* the configured morning and evening windows, each with weight * 5000 W
generateTimeBased(cfg) ==
    Forecast(
        (IF cfg.morningPeakStart < cfg.morningPeakEnd
         THEN << Period(cfg.morningPeakStart, cfg.morningPeakEnd,
                        RMul(cfg.morningPeakWeight, Num(5000)), cfg.morningPeakWeight) >>
         ELSE << >>)
        \o
        (IF cfg.eveningPeakStart < cfg.eveningPeakEnd
         THEN << Period(cfg.eveningPeakStart, cfg.eveningPeakEnd,
                        RMul(cfg.eveningPeakWeight, Num(5000)), cfg.eveningPeakWeight) >>
         ELSE << >>),
        "time-based")

\* .length of an array indexed from 0
ArrayLength(a) == Cardinality(DOMAIN a)
\* hourly[hour] || 0, for an array indexed from 0
HourlyAt(hourly, hour) == IF hour \in DOMAIN hourly THEN OrZero(hourly[hour]) ELSE Num(0)
\* an argument of Math.max: null counts as 0, what is not a number as NaN
ToNumber(x) == IF IsNull(x) THEN Num(0) ELSE x
\* Math.max(...) over the hours first..last of the array
RECURSIVE MaxOfHours(_, _, _)
MaxOfHours(hourly, first, last) ==
    IF first = last THEN ToNumber(hourly[first])
    ELSE RMax(ToNumber(hourly[last]), MaxOfHours(hourly, first, last - 1))

\* the loop over the peak hours: open is the period being built, null or
\* [start, max]
RECURSIVE ScanPeakHours(_, _, _, _, _, _, _)
ScanPeakHours(hourly, hour, peakHoursEnd, threshold, maxConsumption, open, periods) ==
    IF hour >= peakHoursEnd
    THEN IF IsObj(open)
         THEN Append(periods, Period(Val(open).start, peakHoursEnd, Val(open).max,
                                     RDiv(Val(open).max, maxConsumption)))
         ELSE periods
    ELSE IF RGe(HourlyAt(hourly, hour), threshold)
    THEN ScanPeakHours(hourly, hour + 1, peakHoursEnd, threshold, maxConsumption,
                       IF IsObj(open)
                       THEN Obj([start |-> Val(open).start,
                                 max |-> RMax(Val(open).max, HourlyAt(hourly, hour))])
                       ELSE Obj([start |-> hour, max |-> HourlyAt(hourly, hour)]),
                       periods)
    ELSE ScanPeakHours(hourly, hour + 1, peakHoursEnd, threshold, maxConsumption, NoObj,
                       IF IsObj(open)
                       THEN Append(periods, Period(Val(open).start, hour, Val(open).max,
                                                   RDiv(Val(open).max, maxConsumption)))
                       ELSE periods)

\* the runs of peak hours at or above 60% of the day's maximum; without any,
\* the default morning and evening windows that exceed 30% of it
identifyPeakPeriods(hourly, cfg) ==
    LET maxConsumption == MaxOfHours(hourly, 0, ArrayLength(hourly) - 1)
        threshold == RMul(maxConsumption, Rat(6, 10))
        peakHoursStart == IF cfg.peakHoursStart = 0 THEN 7 ELSE cfg.peakHoursStart
        peakHoursEnd == IF cfg.peakHoursEnd = 0 THEN 21 ELSE cfg.peakHoursEnd
        scanned == ScanPeakHours(hourly, peakHoursStart, peakHoursEnd, threshold,
                                 maxConsumption, NoObj, << >>)
        morningMax == MaxOfHours(hourly, 6, 9)
        eveningMax == MaxOfHours(hourly, 17, 21)
    IN  IF Len(scanned) > 0 THEN scanned
        ELSE (IF RGt(morningMax, RMul(threshold, Rat(1, 2)))
              THEN << Period(6, 10, morningMax, RDiv(morningMax, maxConsumption)) >>
              ELSE << >>)
             \o
             (IF RGt(eveningMax, RMul(threshold, Rat(1, 2)))
              THEN << Period(17, 21, eveningMax, RDiv(eveningMax, maxConsumption)) >>
              ELSE << >>)

\* historical data is a function from the weekdays learned so far to
\* [hourlyAverages, sampleCounts], two arrays over the hours 0..23.
\* new Array(24).fill(0)
ZeroArray == [h \in 0..23 |-> 0]

\* the running average of the hour, rounded, with its count capped at 100; the
\* weekday's arrays are created with 24 zeros when its first hour is learned
updateHistoricalData(historicalData, dayOfWeek, hour, avgW) ==
    LET dayData == IF dayOfWeek \in DOMAIN historicalData THEN historicalData[dayOfWeek]
                   ELSE [ hourlyAverages |-> [h \in 0..23 |-> Num(0)],
                          sampleCounts |-> ZeroArray ]
        oldAvg == OrZero(dayData.hourlyAverages[hour])
        count == dayData.sampleCounts[hour]
        newAvg == RDiv(RAdd(RMul(oldAvg, Num(count)), avgW), Num(count + 1))
        updated == [ hourlyAverages |-> [dayData.hourlyAverages EXCEPT ![hour] = MathRound(newAvg)],
                     sampleCounts |-> [dayData.sampleCounts EXCEPT ![hour] = Min2(count + 1, 100)] ]
    IN  [ d \in DOMAIN historicalData \cup {dayOfWeek} |->
            IF d = dayOfWeek THEN updated ELSE historicalData[d] ]

\* the forecast from the weekday's learned averages, or the time-based one when
\* the weekday has no data or an array shorter than 24
generateFromHistory(historicalData, t, cfg) ==
    LET dayOfWeek == getDay(t)
    IN  IF \/ dayOfWeek \notin DOMAIN historicalData
           \/ ArrayLength(historicalData[dayOfWeek].hourlyAverages) < 24
        THEN generateTimeBased(cfg)
        ELSE Forecast(identifyPeakPeriods(historicalData[dayOfWeek].hourlyAverages, cfg),
                      "historical")

\* msg.forecast is missing (null) or an object [kind, periods, hourly]: kind
\* "periods" has an array under periods (format 3), kind "hourly" an array under
\* hourly (formats 1 and 2), kind "array" is itself the array kept here under
\* hourly, and kind "object" has neither. A period entry is null or an object
\* [type, start, end, expectedPeakW, weight]; an hourly entry is
\* [type, value, hour]: a number with its value, null, or an object with its
\* expectedW || expected under value and its hour, NoHour when that is no number

\* the array as identifyPeakPeriods reads it
NumbersOf(hourly) ==
    [ i \in DOMAIN hourly |->
        IF hourly[i].type = "number" THEN hourly[i].value
        ELSE IF hourly[i].type = "null" THEN Null ELSE NaN ]

\* externalForecast.hourly.forEach(h => ...) from entry i on: an object with an
\* hour in 0..23 sets that hour to its value || 0
RECURSIVE FillHourly(_, _, _)
FillHourly(entries, i, hourly) ==
    IF i >= ArrayLength(entries) THEN hourly
    ELSE FillHourly(entries, i + 1,
             IF entries[i].type = "object" /\ entries[i].hour >= 0 /\ entries[i].hour < 24
             THEN [hourly EXCEPT ![entries[i].hour] = OrZero(entries[i].value)]
             ELSE hourly)

\* p.start of a null period and h.hour of a null entry raise a TypeError;
\* typeof null is 'object', so an hourly array that starts with null is read as
\* format 2
normalizeExternalThrows(externalForecast) ==
    /\ IsObj(externalForecast)
    /\ LET ext == Val(externalForecast)
       IN  \/ /\ ext.kind = "periods"
              /\ \E i \in DOMAIN ext.periods : ext.periods[i].type = "null"
           \/ /\ ext.kind = "hourly"
              /\ ArrayLength(ext.hourly) > 0
              /\ ext.hourly[0].type \in {"object", "null"}
              /\ \E i \in DOMAIN ext.hourly : ext.hourly[i].type = "null"

\* the periods of format 3 with expectedPeakW || expected || 0 and weight || 1,
\* or the peak periods of an hourly array of at least 24 entries; null for
\* anything else
normalizeExternal(externalForecast, cfg) ==
    IF ~IsObj(externalForecast) THEN NoObj
    ELSE LET ext == Val(externalForecast)
             hourly ==
                 IF ext.kind = "hourly" /\ ArrayLength(ext.hourly) > 0
                 THEN IF ext.hourly[0].type = "number" THEN Obj(NumbersOf(ext.hourly))
                      ELSE Obj(FillHourly(ext.hourly, 0, [h \in 0..23 |-> Num(0)]))
                 ELSE IF ext.kind = "array" THEN Obj(NumbersOf(ext.hourly))
                 ELSE NoObj
         IN  IF ext.kind = "periods"
             THEN Obj(Forecast(
                      [ i \in 1..Len(ext.periods) |->
                          LET p == ext.periods[i]
                          IN  Period(p.start, p.end, OrZero(p.expectedPeakW),
                                     IF IsNum(p.weight) /\ p.weight # Num(0)
                                     THEN p.weight ELSE Num(1)) ],
                      "external"))
             ELSE IF IsObj(hourly) /\ ArrayLength(Val(hourly)) >= 24
             THEN Obj(Forecast(identifyPeakPeriods(Val(hourly), cfg), "external"))
             ELSE NoObj

\* generateForecast raises what normalizeExternal raises
generateForecastThrows(cfg, externalForecast) ==
    cfg.forecastSource = "external" /\ normalizeExternalThrows(externalForecast)

\* the forecast of the configured source, with the budget allocated when the
\* battery is enabled: (targetSoc - minSoc) / 100 * capacityWh is taken from
\* config.targetSoc || 90, config.minSoc || 10 and (config.batteryCapacityKwh ||
\* config.batteryCapacity || 10) * 1000; of these the merged configuration has
\* at most minSoc
generateForecast(cfg, st, t, externalForecast) ==
    LET forecast ==
            IF cfg.forecastSource = "time-based" THEN generateTimeBased(cfg)
            ELSE IF cfg.forecastSource = "historical"
            THEN generateFromHistory(st.historicalData, t, cfg)
            ELSE IF cfg.forecastSource = "external"
            THEN IF IsObj(normalizeExternal(externalForecast, cfg))
                 THEN Val(normalizeExternal(externalForecast, cfg))
                 ELSE [generateTimeBased(cfg) EXCEPT !.source = "external-fallback"]
            ELSE Forecast(<< >>, "none")
        minSoc == IF cfg.minSoc = NoMinSoc \/ cfg.minSoc = 0 THEN 10 ELSE cfg.minSoc
        usableCapacityWh == RMul(Rat(90 - minSoc, 100), Num(10 * 1000))
        bufferPercent == IF cfg.budgetBuffer = 0 THEN 20 ELSE cfg.budgetBuffer
    IN  IF cfg.batteryEnabled /\ Len(forecast.periods) > 0
        THEN allocateBudget(forecast, usableCapacityWh, bufferPercent)
        ELSE forecast

\* state.forecastDate !== today, or no forecastDate yet
shouldRegenerateForecast(st, t, tz) ==
    ~IsObj(st.forecastDate) \/ Val(st.forecastDate) # IsoDate(t, tz)

resetDailyTracking(st, t, tz) ==
    [ st EXCEPT !.periodEnergyUsed = Obj([k \in {} |-> Num(0)]),
                !.forecastDate = Obj(IsoDate(t, tz)),
                !.currentForecast = NoObj ]

\* `period_${start}_${end}`
PeriodKey(p) == <<"period", p.start, p.end>>

\* forecast.periods.find(p => currentHour >= p.start && currentHour < p.end):
\* the index of the first period that holds the hour, 0 when there is none
FindPeriod(periods, currentHour) ==
    LET holding == { i \in 1..Len(periods) :
                        currentHour >= periods[i].start /\ currentHour < periods[i].end }
    IN  IF holding = {} THEN 0 ELSE CHOOSE i \in holding : \A k \in holding : i <= k

\* (state.periodEnergyUsed && state.periodEnergyUsed[periodKey]) || 0
UsedWh(st, key) ==
    IF IsObj(st.periodEnergyUsed) /\ key \in DOMAIN Val(st.periodEnergyUsed)
    THEN OrZero(Val(st.periodEnergyUsed)[key]) ELSE Num(0)

\* (config.minimumLimitKw || config.minimumLimit || 2) * 1000
DischargeMinimumLimitW(cfg) ==
    RMul(IF cfg.minimumLimitKw # Num(0) THEN cfg.minimumLimitKw ELSE Num(2), Num(1000))

\* config.maxDischargeRateW || config.maxChargeRateW || 5000: the merged
\* configuration has no maxDischargeRateW
MaxDischargeRateW(cfg) ==
    IF cfg.maxChargeRateW # Num(0) THEN cfg.maxChargeRateW ELSE Num(5000)

\* the discharge recommendation; forecast is null (no object) or a forecast,
\* periodKey is set by the returns that come after the period was found
calculateBudgetedDischarge_NoSpread(cfg, st, forecast, currentHour, consumptionW, currentSoc, minSoc, batteryCapacityWh) ==
    IF ~IsObj(forecast) \/ Val(forecast).source = "none"
    THEN [ dischargeW |-> Num(0), reason |-> "no forecast", useBudget |-> FALSE,
           remainingBudgetWh |-> Null, periodKey |-> NoObj ]
    ELSE
    LET periods == Val(forecast).periods
        found == FindPeriod(periods, currentHour)
        period == periods[found]
        usedWh == UsedWh(st, PeriodKey(period))
        remainingBudgetWh == RMax(Num(0), RSub(OrZero(period.budgetWh), usedWh))
        availableEnergyWh == RMul(RDiv(RSub(currentSoc, minSoc), Num(100)), batteryCapacityWh)
        hoursRemaining == RMax(Rat(1, 2), Num(period.end - currentHour))
        targetDischargeW == remainingBudgetWh
        excessW == RMax(Num(0), RSub(consumptionW, DischargeMinimumLimitW(cfg)))
        maxFromBattery == RMin(MaxDischargeRateW(cfg), RMul(availableEnergyWh, Num(6)))
        dischargeW == RMin(RMin(targetDischargeW, excessW), maxFromBattery)
    IN  IF found = 0
        THEN [ dischargeW |-> Num(0), reason |-> "not in forecast period", useBudget |-> TRUE,
               remainingBudgetWh |-> Num(0), periodKey |-> NoObj ]
        ELSE IF RLe(remainingBudgetWh, Num(0))
        THEN [ dischargeW |-> Num(0), reason |-> "period budget exhausted", useBudget |-> TRUE,
               remainingBudgetWh |-> Num(0), periodKey |-> Obj(PeriodKey(period)) ]
        ELSE IF RLe(availableEnergyWh, Num(0))
        THEN [ dischargeW |-> Num(0), reason |-> "battery at minimum SOC", useBudget |-> TRUE,
               remainingBudgetWh |-> remainingBudgetWh, periodKey |-> Obj(PeriodKey(period)) ]
        ELSE [ dischargeW |-> MathRound(dischargeW),
               reason |-> IF RGt(dischargeW, Num(0)) THEN "budget-based discharge"
                          ELSE "no excess power",
               useBudget |-> TRUE,
               remainingBudgetWh |-> MathRound(remainingBudgetWh),
               periodKey |-> Obj(PeriodKey(period)) ]
calculateBudgetedDischarge(cfg, st, forecast, currentHour, consumptionW, currentSoc, minSoc, batteryCapacityWh) ==
    IF ~IsObj(forecast) \/ Val(forecast).source = "none"
    THEN [ dischargeW |-> Num(0), reason |-> "no forecast", useBudget |-> FALSE,
           remainingBudgetWh |-> Null, periodKey |-> NoObj ]
    ELSE
    LET periods == Val(forecast).periods
        found == FindPeriod(periods, currentHour)
        period == periods[found]
        usedWh == UsedWh(st, PeriodKey(period))
        remainingBudgetWh == RMax(Num(0), RSub(OrZero(period.budgetWh), usedWh))
        availableEnergyWh == RMul(RDiv(RSub(currentSoc, minSoc), Num(100)), batteryCapacityWh)
        hoursRemaining == RMax(Rat(1, 2), Num(period.end - currentHour))
        targetDischargeW == RDiv(remainingBudgetWh, hoursRemaining)
        excessW == RMax(Num(0), RSub(consumptionW, DischargeMinimumLimitW(cfg)))
        maxFromBattery == RMin(MaxDischargeRateW(cfg), RMul(availableEnergyWh, Num(6)))
        dischargeW == RMin(RMin(targetDischargeW, excessW), maxFromBattery)
    IN  IF found = 0
        THEN [ dischargeW |-> Num(0), reason |-> "not in forecast period", useBudget |-> TRUE,
               remainingBudgetWh |-> Num(0), periodKey |-> NoObj ]
        ELSE IF RLe(remainingBudgetWh, Num(0))
        THEN [ dischargeW |-> Num(0), reason |-> "period budget exhausted", useBudget |-> TRUE,
               remainingBudgetWh |-> Num(0), periodKey |-> Obj(PeriodKey(period)) ]
        ELSE IF RLe(availableEnergyWh, Num(0))
        THEN [ dischargeW |-> Num(0), reason |-> "battery at minimum SOC", useBudget |-> TRUE,
               remainingBudgetWh |-> remainingBudgetWh, periodKey |-> Obj(PeriodKey(period)) ]
        ELSE [ dischargeW |-> MathRound(dischargeW),
               reason |-> IF RGt(dischargeW, Num(0)) THEN "budget-based discharge"
                          ELSE "no excess power",
               useBudget |-> TRUE,
               remainingBudgetWh |-> MathRound(remainingBudgetWh),
               periodKey |-> Obj(PeriodKey(period)) ]

----------------------------------------------------------------------------
(* The caller: what it may pass in *)

\* clock times <<hour, minute>> at which readings arrive: twice in the 07:00
\* hour, once in the last hour of the 07-21 window and once after it
DayTimes == { <<7, 0>>, <<7, 30>>, <<20, 0>>, <<23, 0>> }
Stamps(days, times) == { Stamp(d, hm[1], hm[2]) : d \in days, hm \in times }

\* grid power readings in watts
Powers == { Num(5000), Num(8000) }

\* configurations the ranked (Sweden-style) hourly engine is run with
RankedTwoPeaks == [SwedenConfig EXCEPT !.peakCount = 2]
RankedCarryover ==
    [SwedenConfig EXCEPT !.peakCount = 1, !.learningMode = "carryover",
                         !.minimumLimitKw = Num(2)]
RankedWeekdays ==
    [SwedenConfig EXCEPT !.peakCount = 2, !.weekdaysOnly = TRUE,
                         !.learningMode = "carryover", !.maxBreakerCurrent = Rat(65, 4)]
RankedConfigs == { RankedTwoPeaks, RankedCarryover, RankedWeekdays }

NoDates == [d \in {} |-> Null]

InitWith(configs, zones) ==
    /\ config \in configs
    /\ tzOffset \in zones
    /\ state = createInitialState
    /\ now = Stamp(0, 0, 0)
    /\ result = NoObj
    /\ submitted = NoDates

\* one reading delivered to processGridPower
Sample(days, times, powers, batteries) ==
    \E t \in { u \in Stamps(days, times) : After(u, now) }, p \in powers, b \in batteries :
        /\ processGridPower(p, t, b)
        /\ UNCHANGED submitted

Init == InitWith(RankedConfigs, {0})

\* annual billing: the Belgian preset (single peak, 15-minute intervals) and a
\* ranked configuration with annualBillingEnabled set, both with a short
\* rolling window
BillingSingle == [BelgiumConfig EXCEPT !.rollingMonths = 2]
BillingRanked ==
    [SwedenConfig EXCEPT !.peakCount = 1, !.annualBillingEnabled = TRUE, !.rollingMonths = 2]
BillingConfigs == { BillingSingle, BillingRanked }
\* two readings in one 15-minute interval and one in the next; with hourly
\* measurement one reading in each of two hours
BillingTimes(cfg) ==
    IF UseIntervalTracking(cfg)
    THEN { <<7, 0>>, <<7, 5>>, <<7, 15>> }
    ELSE { <<7, 0>>, <<20, 0>> }
\* an exporting reading next to two importing ones
BillingPowers == { Num(-2000), Num(5000), Num(8000) }
InitBilling == InitWith(BillingConfigs, {0})
Next == Sample(0..MaxDay, DayTimes, Powers, {NoObj})
Spec == Init /\ [][Next]_vars

NextBilling == Sample(0..MaxBillingDay, BillingTimes(config), BillingPowers, {NoObj})
SpecBilling == InitBilling /\ [][NextBilling]_vars

----------------------------------------------------------------------------
(* The registry on its own: recordPeak called directly, as the unit tests do *)

RecordDates == 0..MaxRecordDate
RecordHours == {7}
RecordValues == { Num(5000), Num(8000) }
RecordConfigs ==
    { [DEFAULT_CONFIG EXCEPT !.peakCount = 1, !.onePeakPerDay = o] : o \in BOOLEAN }

InitRecord ==
    /\ config \in RecordConfigs
    /\ tzOffset = 0
    /\ state = createInitialState
    /\ now = Stamp(0, 0, 0)
    /\ result = NoObj
    /\ submitted = [d \in RecordDates |-> Null]

\* recordPeak(state, config, date, hour, value, effective)
RecordPeak ==
    \E date \in RecordDates, hour \in RecordHours, v \in RecordValues :
        \E r \in { recordPeak(state.peaks, config, date, hour, v, v) } :
            /\ state' = [state EXCEPT !.peaks = r.peaks]
            /\ result' = Obj([date |-> date, hour |-> hour, value |-> v, effective |-> v,
                              ret |-> r.ret])
            /\ submitted' = [submitted EXCEPT ![date] = IF IsNull(@) THEN v ELSE RMax(@, v)]
            /\ UNCHANGED <<config, tzOffset, now>>

NextRecord == RecordPeak
SpecRecord == InitRecord /\ [][NextRecord]_vars

----------------------------------------------------------------------------
(* calculateChargeRate called on its own, as the battery tests do *)

MaxBatteryDay == 2

\* the configuration of the calculateChargeRate tests, the same with balancing
\* switched on, and one with a peak season that opens in January
BatteryPlain ==
    [DEFAULT_CONFIG EXCEPT
        !.peakSeasonOnly = FALSE, !.peakHoursStart = 7, !.peakHoursEnd = 21,
        !.weekdaysOnly = FALSE, !.batteryEnabled = TRUE,
        !.batteryCapacityWh = Num(10000), !.maxChargeRateW = Num(3000), !.socBuffer = 20]
BatteryBalancing ==
    [BatteryPlain EXCEPT !.maxChargeRateW = Num(5000), !.batteryBalancing.enabled = TRUE]
BatterySeasonal ==
    [BatteryBalancing EXCEPT !.peakSeasonOnly = TRUE, !.peakSeasonStart = 1, !.peakSeasonEnd = 3]
BatteryOff == [BatteryBalancing EXCEPT !.batteryEnabled = FALSE]
\* a maximum charge rate that is not a multiple of 10 W
BatteryOddRate == [BatteryBalancing EXCEPT !.maxChargeRateW = Num(2995)]
BatteryConfigs == { BatteryPlain, BatteryOddRate, BatterySeasonal, BatteryOff }

\* clock times of the calls: three in the 00-06 balancing window, one an hour
\* before the peak window, one at its start and one after it
BatteryTimes == { <<1, 0>>, <<3, 0>>, <<5, 0>>, <<6, 0>>, <<7, 0>>, <<22, 0>> }

\* what the caller passes as batteryState: nothing, a non-numeric soc, or a
\* numeric soc with or without minSoc
BatteryStates ==
    { NoObj, Obj([soc |-> NonNumericSoc, minSoc |-> NoMinSoc]) }
        \cup { Obj([soc |-> s, minSoc |-> m]) : s \in {30, 40, 80, 100}, m \in {50, NoMinSoc} }

\* submitted is the log of the calls here: the battery state of the last call,
\* whether balancing was active when it was made, and the days on which a
\* balancing cycle has run to completion
InitBattery ==
    /\ config \in BatteryConfigs
    /\ tzOffset = 0
    /\ state = createInitialState
    /\ now = Stamp(0, 0, 0)
    /\ result = NoObj
    /\ submitted = [battery |-> NoObj, wasBalancing |-> FALSE, completed |-> {}]

ChargeRate ==
    \E t \in { u \in Stamps(0..MaxBatteryDay, BatteryTimes) : After(u, now) },
       b \in BatteryStates :
    \E r \in { calculateChargeRate(state, config, b, t) } :
        /\ state' = r.state
        /\ result' = Obj(r.result)
        /\ now' = t
        /\ submitted' =
              [ battery |-> b, wasBalancing |-> state.isBalancing,
                completed |-> IF state.isBalancing /\ ~r.state.isBalancing
                                   /\ ~r.result.inPeakHours
                              THEN submitted.completed \cup {t.day}
                              ELSE submitted.completed ]
        /\ UNCHANGED <<config, tzOffset>>

\* getBatteryStatus(state, config, batteryState, now)
BatteryStatus ==
    \E t \in { u \in Stamps(0..MaxBatteryDay, BatteryTimes) : After(u, now) },
       b \in BatteryStates :
    \E r \in { getBatteryStatus(state, config, b, t) } :
        /\ state' = r.state
        /\ result' = r.result
        /\ now' = t
        /\ submitted' =
              [ battery |-> b, wasBalancing |-> state.isBalancing,
                completed |-> IF state.isBalancing /\ ~r.state.isBalancing
                                   /\ IsObj(r.result) /\ ~r.result[1].inPeakHours
                              THEN submitted.completed \cup {t.day}
                              ELSE submitted.completed ]
        /\ UNCHANGED <<config, tzOffset>>

NextBattery == ChargeRate \/ BatteryStatus
SpecBattery == InitBattery /\ [][NextBattery]_vars

----------------------------------------------------------------------------
(* A constant load: every reading is 3000 W *)

MaxConstantDay == 2

\* 3 phases at 230 V and the 07-21 window are the defaults; no season
\* restriction, peakCount 3, with and without onePeakPerDay, and with the
\* default floor of 4 kW or one below the load
ConstantConfigs ==
    { [DEFAULT_CONFIG EXCEPT !.peakSeasonOnly = FALSE, !.peakCount = 3,
                             !.onePeakPerDay = o, !.minimumLimitKw = Num(m)] :
          o \in BOOLEAN, m \in {2, 4} }
ConstantTimes == { <<7, 0>>, <<8, 0>>, <<9, 0>>, <<10, 0>>, <<22, 0>> }
ConstantPowerW == Num(3000)

\* submitted counts here the qualifying hours completed in the current month,
\* up to peakCount
InitConstant ==
    /\ config \in ConstantConfigs
    /\ tzOffset = 0
    /\ state = createInitialState
    /\ now = Stamp(0, 0, 0)
    /\ result = NoObj
    /\ submitted = [qualifying |-> 0]

ConstantSample ==
    \E t \in { u \in Stamps(0..MaxConstantDay, ConstantTimes) : After(u, now) } :
        /\ processGridPower(ConstantPowerW, t, NoObj)
        /\ submitted' =
              [ qualifying |->
                  IF IsMonthReset(state, t) THEN 0
                  ELSE IF /\ IsObj(result'[1].hourCompleted)
                          /\ isInPeakHours(state.currentHour, getDay(now), getMonth(now) + 1, config)
                       THEN Min2(submitted.qualifying + 1, config.peakCount)
                       ELSE submitted.qualifying ]

NextConstant == ConstantSample
SpecConstant == InitConstant /\ [][NextConstant]_vars

----------------------------------------------------------------------------
(* calculateDynamicHeadroomW on its own, for two SOC readings *)

MaxRules == 2

\* rule tables of up to MaxRules rules in any order, over the thresholds and
\* headrooms of the default table
RuleThresholds == {20, 80, 101}
RuleHeadrooms == { Rat(2, 10), Rat(5, 10), Num(1) }
RuleSet == [socLessThan : RuleThresholds, headroomKw : RuleHeadrooms]
RuleTables == UNION { [1..n -> RuleSet] : n \in 0..MaxRules }
\* the fixed headroom: the default 0.3 kW and one below every rule
FixedHeadrooms == { Rat(1, 10), Rat(3, 10) }
HeadroomConfigs ==
    { [DEFAULT_CONFIG EXCEPT !.headroomKw = f,
                             !.dynamicHeadroom = [enabled |-> e, rules |-> r]] :
          f \in FixedHeadrooms, e \in BOOLEAN, r \in RuleTables }
\* SOC readings, one of them above every threshold
HeadroomSocs == {10, 50, 90, 105}

\* submitted holds here the two SOC readings the headroom was computed for,
\* result the two headrooms
InitHeadroom ==
    /\ config \in HeadroomConfigs
    /\ tzOffset = 0
    /\ state = createInitialState
    /\ now = Stamp(0, 0, 0)
    /\ result = NoObj
    /\ submitted = NoObj

DynamicHeadroom ==
    \E s1 \in HeadroomSocs, s2 \in HeadroomSocs :
        /\ s1 <= s2
        /\ submitted' = Obj([soc1 |-> s1, soc2 |-> s2])
        /\ result' = Obj([ headroom1 |-> calculateDynamicHeadroomW(config, Obj([soc |-> s1, minSoc |-> NoMinSoc])),
                           headroom2 |-> calculateDynamicHeadroomW(config, Obj([soc |-> s2, minSoc |-> NoMinSoc])) ])
        /\ UNCHANGED <<config, tzOffset, state, now>>

NextHeadroom == DynamicHeadroom
SpecHeadroom == InitHeadroom /\ [][NextHeadroom]_vars

----------------------------------------------------------------------------
(* allocateBudget on its own *)

MaxPeriods == 2

\* the weights of the time-based forecast (0.3 and 1.0), a zero weight and a
\* period without a weight; expected peaks of 0, 1500 and 5000 W
PeriodWeights == { Null, Num(0), Rat(3, 10), Num(1) }
PeriodPeaks == { Num(0), Num(1500), Num(5000) }
PeriodSet == [weight : PeriodWeights, expectedPeakW : PeriodPeaks, budgetWh : {Null}]
Forecasts ==
    { [periods |-> ps, totalBudgetWh |-> Null, bufferWh |-> Null] :
          ps \in UNION { [1..n -> PeriodSet] : n \in 0..MaxPeriods } }
\* (targetSoc - minSoc) / 100 * capacityWh with the defaults 90, 10 and 10 kWh
UsableCapacities == { Num(8000) }
\* config.budgetBuffer || 20, and a caller that reserves nothing
BufferPercents == {0, 20}

\* submitted holds here the arguments of the call, result the forecast returned
InitBudget ==
    /\ config = DEFAULT_CONFIG
    /\ tzOffset = 0
    /\ state = createInitialState
    /\ now = Stamp(0, 0, 0)
    /\ result = NoObj
    /\ submitted = NoObj

AllocateBudget ==
    \E f \in Forecasts, u \in UsableCapacities, b \in BufferPercents :
        /\ submitted' = Obj([forecast |-> f, usableCapacityWh |-> u, bufferPercent |-> b])
        /\ result' = Obj(allocateBudget(f, u, b))
        /\ UNCHANGED <<config, tzOffset, state, now>>

NextBudget == AllocateBudget
SpecBudget == InitBudget /\ [][NextBudget]_vars

----------------------------------------------------------------------------
(* The single-peak record on its own: recordSinglePeak called directly *)

MaxSingleDay == 1

\* quarter-hour intervals of the 07:00 hour on the days of one billing month
SingleIntervals == { <<d, 7, m>> : d \in 0..MaxSingleDay, m \in {0, 15} }
SingleValues == { Num(4000), Num(5000), Num(8000) }

\* submitted holds here the last submission and the largest effective value
\* submitted so far
InitSingle ==
    /\ config = BelgiumConfig
    /\ tzOffset = 0
    /\ state = createInitialState
    /\ now = Stamp(0, 0, 0)
    /\ result = NoObj
    /\ submitted = [intervalId |-> <<>>, effective |-> Null, largest |-> Null]

\* recordSinglePeak(state, intervalId, value, effective), the effective value
\* being the value or, with the night discount, half of it
RecordSinglePeak ==
    \E id \in SingleIntervals, v \in SingleValues :
    \E e \in { v, RDiv(v, Num(2)) } :
    \E r \in { recordSinglePeak(state, id, v, e) } :
        /\ state' = [state EXCEPT !.currentMonthPeak = r.currentMonthPeak]
        /\ result' = Obj([ret |-> r.ret])
        /\ submitted' = [ intervalId |-> id, effective |-> e,
                          largest |-> IF IsNull(submitted.largest) THEN e
                                      ELSE RMax(submitted.largest, e) ]
        /\ UNCHANGED <<config, tzOffset, now>>

NextSingle == RecordSinglePeak
SpecSingle == InitSingle /\ [][NextSingle]_vars

----------------------------------------------------------------------------
(* The night discount: readings around 22:00 and 06:00, in two time zones *)

MaxNightDay == 1

\* the Belgian preset (15-minute intervals, all hours are peak hours) with the
\* night discount, and the hourly engine with and without it
NightInterval == [BelgiumConfig EXCEPT !.nightDiscount = TRUE]
NightHourly ==
    [SwedenConfig EXCEPT !.nightDiscount = TRUE, !.peakCount = 1,
                         !.peakHoursStart = 0, !.peakHoursEnd = 24]
NightHourlyOff == [NightHourly EXCEPT !.nightDiscount = FALSE]
NightConfigs == { NightInterval, NightHourly, NightHourlyOff }
NightTimes == { <<5, 0>>, <<6, 0>>, <<21, 0>>, <<22, 0>>, <<22, 15>>, <<23, 0>> }
\* the host runs on UTC or one hour east of it
NightZones == {0, 1}

InitNight == InitWith(NightConfigs, NightZones)
NextNight == Sample(0..MaxNightDay, NightTimes, Powers, {NoObj})
SpecNight == InitNight /\ [][NextNight]_vars

----------------------------------------------------------------------------
(* One billing month of the ranked engine, on a host west of UTC *)

MaxTargetDay == 1

\* two ranked peaks with the preset's fixed headroom, one entry per day and
\* several
TargetConfigs ==
    { RankedTwoPeaks, [RankedTwoPeaks EXCEPT !.onePeakPerDay = FALSE] }
\* the host runs on UTC or five hours west of it, where the UTC date of a
\* reading in the evening is the next day's
TargetZones == {0, -5}
\* one reading in each of the hours 07:00, 08:00 and 20:00
TargetTimes == { <<7, 0>>, <<8, 0>>, <<20, 0>> }

InitTarget == InitWith(TargetConfigs, TargetZones)
NextTarget == Sample(0..MaxTargetDay, TargetTimes, Powers, {NoObj})
SpecTarget == InitTarget /\ [][NextTarget]_vars

----------------------------------------------------------------------------
(* Downtime detection: readings with gaps between them *)

MaxDowntimeDay == 2

\* the hourly engine with the default detection (enabled, 2 hours, 'log'), a
\* trigger of 3 hours, the action 'ignore', and detection disabled
DowntimeSettings ==
    { [enabled |-> TRUE, triggerHours |-> 2, action |-> "log"],
      [enabled |-> TRUE, triggerHours |-> 3, action |-> "log"],
      [enabled |-> TRUE, triggerHours |-> 2, action |-> "ignore"],
      [enabled |-> FALSE, triggerHours |-> 2, action |-> "log"] }
DowntimeConfigs ==
    { [SwedenConfig EXCEPT !.peakCount = 1, !.downtimeDetection = dd] : dd \in DowntimeSettings }
\* two readings in the 10:00 hour, the next hour, a gap of two hours after it,
\* and a gap over midnight
DowntimeTimes == { <<2, 0>>, <<10, 0>>, <<10, 30>>, <<11, 0>>, <<13, 0>>, <<23, 0>> }
DowntimePowers == { Num(2000) }

InitDowntime == InitWith(DowntimeConfigs, {0})
NextDowntime == Sample(0..MaxDowntimeDay, DowntimeTimes, DowntimePowers, {NoObj})
SpecDowntime == InitDowntime /\ [][NextDowntime]_vars

----------------------------------------------------------------------------
(* Exporting and unreadable samples *)

MaxClampDay == 2

\* parseFloat(msg.payload) || 0: a payload that is not a number parses to NaN,
\* and NaN and 0 are falsy
ParsePayload(payload) ==
    IF IsNum(payload) /\ payload # Num(0) THEN payload ELSE Num(0)

\* an exporting reading, a payload that is not a number, a missing payload and
\* an importing reading
ClampPayloads == { Num(-2000), NaN, Null, Num(3000) }
ClampConfigs == { [SwedenConfig EXCEPT !.peakCount = 1], BelgiumConfig }
ClampTimes == { <<7, 0>>, <<7, 5>>, <<7, 15>>, <<8, 0>> }

\* submitted holds here the payload of the last input
InitClamp ==
    /\ config \in ClampConfigs
    /\ tzOffset = 0
    /\ state = createInitialState
    /\ now = Stamp(0, 0, 0)
    /\ result = NoObj
    /\ submitted = [payload |-> Null]

ClampSample ==
    \E t \in { u \in Stamps(0..MaxClampDay, ClampTimes) : After(u, now) },
       payload \in ClampPayloads :
        /\ processGridPower(ParsePayload(payload), t, NoObj)
        /\ submitted' = [payload |-> payload]

NextClamp == ClampSample
SpecClamp == InitClamp /\ [][NextClamp]_vars

----------------------------------------------------------------------------
(* The node: one input message per grid power reading *)

MaxNodeDay == 2

\* updateLastOutput(state, limitA)
updateLastOutput(st, limitA) == [st EXCEPT !.lastOutputLimitA = limitA]

\* the node's settings: maxBreakerCurrent is parseInt(...) || 25 and
\* forecastSource is 'none' unless configured
NodeConfigs ==
    { [SwedenConfig EXCEPT !.peakCount = 1],
      [SwedenConfig EXCEPT !.peakCount = 1, !.batteryEnabled = TRUE] }
NodeTimes == { <<6, 0>>, <<7, 0>>, <<8, 0>> }
NodePayloads == { Num(5000), Num(8000) }
\* globalContext.get(socContextKey): nothing stored yet, or a percentage
NodeSocs == { NonNumericSoc, 50 }

\* "Read battery state from global context if enabled": minSoc falls back to 20
NodeBatteryState(cfg, soc) ==
    IF cfg.batteryEnabled /\ soc # NonNumericSoc
    THEN Obj([soc |-> soc, minSoc |-> 20])
    ELSE NoObj

\* peakTracker.getBatteryStatus(trackerConfig, batteryState, now): the function's
\* parameters are (state, config, batteryState, now), so the battery state is
\* read as the config; config.batteryEnabled of null raises a TypeError, and of
\* a battery state it is undefined and the status is null
NodeBatteryStatusThrows(cfg, batteryState) == cfg.batteryEnabled /\ ~IsObj(batteryState)

\* externalForecast = msg.forecast || globalContext.get(forecastContextKey):
\* globalContext is declared in the block that reads the battery state and is
\* not in scope here, so a message without forecast raises a ReferenceError
NodeExternalForecastThrows(cfg, msgForecast) ==
    cfg.forecastSource = "external" /\ ~IsObj(msgForecast)

\* "Handle forecasting for budget-based discharge", up to the forecast in use:
\* the daily reset and the generation of a forecast when none is stored
NodeForecastState(st, cfg, t, tz, msgForecast) ==
    LET s3 == IF shouldRegenerateForecast(st, t, tz) THEN resetDailyTracking(st, t, tz) ELSE st
    IN  IF NodeExternalForecastThrows(cfg, msgForecast) THEN s3
        ELSE IF ~IsObj(s3.currentForecast) \/ shouldRegenerateForecast(s3, t, tz)
        THEN [ s3 EXCEPT !.currentForecast = Obj(generateForecast(cfg, s3, t, msgForecast)),
                         !.forecastDate = Obj(IsoDate(t, tz)) ]
        ELSE s3

\* "Track energy used if discharging": ten seconds of the recommended discharge
NodeTrackEnergy(st, dischargeInfo) ==
    IF RGt(dischargeInfo.dischargeW, Num(0)) /\ IsObj(dischargeInfo.periodKey)
    THEN LET key == Val(dischargeInfo.periodKey)
             used == Val(st.periodEnergyUsed)
             energyWh == RMul(dischargeInfo.dischargeW, Rat(10, 3600))
         IN  [ st EXCEPT !.periodEnergyUsed =
                 Obj([ k \in DOMAIN used \cup {key} |->
                         IF k = key THEN RAdd(UsedWh(st, key), energyWh) ELSE used[k] ]) ]
    ELSE st

\* "Update historical data for forecasting learning", for a completed hour
NodeLearn(st, cfg, t, hourCompleted) ==
    IF IsObj(hourCompleted) /\ cfg.forecastSource # "none"
    THEN [ st EXCEPT !.historicalData =
             updateHistoricalData(st.historicalData, getDay(t), Val(hourCompleted).hour,
                                  Val(hourCompleted).avgW) ]
    ELSE st

\* submitted holds here the closure variable isFirstMessage, the limit message
\* and the failure of the last input, whether no input came since the start,
\* the payload of the last limit message sent, whether the last input reset the
\* daily tracking and generated a forecast, and whether any input has failed
InitNode ==
    /\ config \in NodeConfigs
    /\ tzOffset = 0
    /\ state = createInitialState
    /\ now = Stamp(0, 0, 0)
    /\ result = NoObj
    /\ submitted = [ isFirstMessage |-> TRUE, limitMsg |-> NoObj, threw |-> FALSE,
                     started |-> TRUE, lastEmitted |-> Null,
                     reset |-> FALSE, regenerated |-> FALSE, failed |-> FALSE ]

\* node.on('input') for a message that arrives at one of times with one of
\* payloads, one of socs in the global context and one of forecasts as
\* msg.forecast: the measurement is processed, the battery status is asked for,
\* the forecast is kept up and the discharge tracked, a completed hour is
\* learned, and the limit message is prepared; an exception ends the handler
\* with done(err) and leaves the state as changed so far
NodeInputWith(times, payloads, socs, forecasts) ==
    \E t \in { u \in times : After(u, now) },
       payload \in payloads, soc \in socs, msgForecast \in forecasts :
    \E batteryState \in { NodeBatteryState(config, soc) } :
    \E s1 \in { AfterMonthCheck(state, config, t) } :
    \E tracked \in { Track(s1, config, t, tzOffset, ImportPower(ParsePayload(payload))) } :
    \E lim \in { TargetLimit(tracked.state, config, batteryState) } :
    \E outputLimitA \in { OutputLimitA(config, t, lim) } :
    \E res \in { ResultObj(state, s1, tracked.state, config, t, tracked, lim, outputLimitA) } :
    \E statusThrew \in { NodeBatteryStatusThrows(config, batteryState) } :
    \E forecasting \in { config.batteryEnabled /\ ~statusThrew
                             /\ config.forecastSource # "none" } :
    \E threw \in { statusThrew
                      \/ (forecasting /\ NodeExternalForecastThrows(config, msgForecast)) } :
    \E s4 \in { IF forecasting
                 THEN NodeForecastState(tracked.state, config, t, tzOffset, msgForecast)
                 ELSE tracked.state } :
    \E s5 \in { IF forecasting /\ ~threw
                 THEN NodeTrackEnergy(s4,
                          calculateBudgetedDischarge(config, s4, s4.currentForecast, getHours(t),
                              ParsePayload(payload), Num(Val(batteryState).soc),
                              Num(Val(batteryState).minSoc), config.batteryCapacityWh))
                 ELSE s4 } :
    \E s6 \in { IF threw THEN s5 ELSE NodeLearn(s5, config, t, res.hourCompleted) } :
    \E shouldOutput \in { ~threw /\ (submitted.isFirstMessage \/ res.outputChanged) } :
        /\ state' = IF shouldOutput THEN updateLastOutput(s6, res.outputLimitA) ELSE s6
        /\ result' = Obj(res)
        /\ now' = t
        /\ submitted' =
              [ isFirstMessage |-> threw /\ submitted.isFirstMessage,
                limitMsg |-> IF shouldOutput THEN Obj(res.outputLimitA) ELSE NoObj,
                threw |-> threw,
                started |-> FALSE,
                lastEmitted |-> IF shouldOutput THEN res.outputLimitA
                                ELSE submitted.lastEmitted,
                reset |-> forecasting /\ shouldRegenerateForecast(tracked.state, t, tzOffset),
                regenerated |-> /\ forecasting /\ ~threw
                                /\ \/ shouldRegenerateForecast(tracked.state, t, tzOffset)
                                   \/ ~IsObj(tracked.state.currentForecast),
                failed |-> submitted.failed \/ threw ]
        /\ UNCHANGED <<config, tzOffset>>

NodeInput ==
    NodeInputWith(Stamps(0..MaxNodeDay, NodeTimes), NodePayloads, NodeSocs, {NoObj})

\* node.on('close') saves the state; the next start loads it and begins with
\* isFirstMessage = true
NodeRestart ==
    /\ ~submitted.started
    /\ submitted' = [submitted EXCEPT !.isFirstMessage = TRUE, !.started = TRUE,
                                      !.limitMsg = NoObj, !.threw = FALSE]
    /\ UNCHANGED <<config, tzOffset, state, now, result>>

NextNode == NodeInput \/ NodeRestart
SpecNode == InitNode /\ [][NextNode]_vars

----------------------------------------------------------------------------
(* The node with a battery and a time-based forecast *)

MaxForecastDay == 0

ForecastConfigs ==
    { [SwedenConfig EXCEPT !.peakCount = 1, !.batteryEnabled = TRUE,
                           !.forecastSource = "time-based"] }
\* half past midnight is still the day before in UTC for a node east of it
ForecastTimes == { <<0, 30>>, <<7, 0>>, <<8, 0>> }
ForecastPayloads == { Num(3000), Num(8000) }
ForecastZones == { 0, 1 }

InitForecast ==
    /\ config \in ForecastConfigs
    /\ tzOffset \in ForecastZones
    /\ state = createInitialState
    /\ now = Stamp(0, 0, 0)
    /\ result = NoObj
    /\ submitted = [ isFirstMessage |-> TRUE, limitMsg |-> NoObj, threw |-> FALSE,
                     started |-> TRUE, lastEmitted |-> Null,
                     reset |-> FALSE, regenerated |-> FALSE, failed |-> FALSE ]

ForecastInput ==
    NodeInputWith(Stamps(0..MaxForecastDay, ForecastTimes), ForecastPayloads, NodeSocs, {NoObj})

NextForecast == ForecastInput \/ NodeRestart
SpecForecast == InitForecast /\ [][NextForecast]_vars

----------------------------------------------------------------------------
(* Hours until the next peak window *)

MaxHoursDay == 6

\* a season that ends with January, the Swedish season, and no season at all,
\* with and without weekdaysOnly
HoursConfigs ==
    { [BatteryPlain EXCEPT !.peakSeasonOnly = TRUE, !.peakSeasonStart = 12, !.peakSeasonEnd = 1],
      [BatteryPlain EXCEPT !.peakSeasonOnly = TRUE, !.peakSeasonStart = 11, !.peakSeasonEnd = 3,
                           !.weekdaysOnly = TRUE],
      [BatteryPlain EXCEPT !.weekdaysOnly = TRUE] }
HoursTimes == { <<0, 0>>, <<6, 30>>, <<6, 45>>, <<7, 0>>, <<8, 0>>, <<22, 0>> }

InitHours ==
    /\ config \in HoursConfigs
    /\ tzOffset = 0
    /\ state = createInitialState
    /\ now = Stamp(0, 0, 0)
    /\ result = NoObj
    /\ submitted = << >>

\* calculateHoursUntilPeak(now, config)
HoursUntilPeak ==
    \E t \in { u \in Stamps(0..MaxHoursDay, HoursTimes) : After(u, now) } :
        /\ result' = Obj([hoursUntilPeak |-> calculateHoursUntilPeak(t, config)])
        /\ now' = t
        /\ UNCHANGED <<config, tzOffset, state, submitted>>

NextHours == HoursUntilPeak
SpecHours == InitHours /\ [][NextHours]_vars

----------------------------------------------------------------------------
(* The budgeted discharge on its own: calculateBudgetedDischarge called with  *)
(* a forecast whose periods carry a budget                                    *)

MaxDischargePeriods == 2

\* the morning window without a budget, with an empty one and with budgets that
\* do and do not divide evenly over the hours left, followed by evening windows
MorningPeriods ==
    { [start |-> 6, end |-> 9, budgetWh |-> b] : b \in { Null, Num(0), Num(1000), Num(3600) } }
EveningPeriod == [start |-> 17, end |-> 21, budgetWh |-> Num(3600)]
DischargeForecasts ==
    { NoObj, Obj([source |-> "none", periods |-> << >>]) } \cup
    { Obj([source |-> "time-based",
           periods |-> <<m>> \o [i \in 1..(n - 1) |-> EveningPeriod]]) :
          m \in MorningPeriods, n \in 1..MaxDischargePeriods }
\* state.periodEnergyUsed: not set, or the energy spent under the morning key
DischargeUsed ==
    { NoObj } \cup
    { Obj([k \in { <<"period", 6, 9>> } |-> u]) : u \in { Num(400), Num(1000) } }
DischargeHours == { 6, 8, 17 }
DischargeConsumptions == { Num(-500), Num(4500), Num(9000) }
DischargeSocs == { 10, 11, 50 }
DischargeMinSoc == 10

\* submitted holds here the arguments of the call, result what it returned
InitDischarge ==
    /\ config = BatteryPlain
    /\ tzOffset = 0
    /\ state = createInitialState
    /\ now = Stamp(0, 0, 0)
    /\ result = NoObj
    /\ submitted = NoObj

BudgetedDischarge ==
    \E f \in DischargeForecasts, u \in DischargeUsed, h \in DischargeHours,
       c \in DischargeConsumptions, soc \in DischargeSocs :
        /\ submitted' = Obj([ forecast |-> f, periodEnergyUsed |-> u, currentHour |-> h,
                              consumptionW |-> c, currentSoc |-> soc ])
        /\ result' = Obj(calculateBudgetedDischarge(config, [periodEnergyUsed |-> u], f, h, c,
                                                    Num(soc), Num(DischargeMinSoc),
                                                    config.batteryCapacityWh))
        /\ UNCHANGED <<config, tzOffset, state, now>>

NextDischarge == BudgetedDischarge
SpecDischarge == InitDischarge /\ [][NextDischarge]_vars

----------------------------------------------------------------------------
(* Learning hourly averages and forecasting from them *)

MaxLearnedSamples == 1
MaxHistoryDay == 1

HistoryConfig == [BatteryPlain EXCEPT !.forecastSource = "historical"]
\* the weekdays and hours for which completed hours are reported
HistoryWeekdays == { 0, 1 }
HistoryHours == { 7, 18 }
HistoryAverages == { Num(3000), Num(5000) }

InitHistory ==
    /\ config = HistoryConfig
    /\ tzOffset = 0
    /\ state = createInitialState
    /\ now = Stamp(0, 0, 0)
    /\ result = NoObj
    /\ submitted = << >>

\* state.historicalData = updateHistoricalData(state.historicalData, dayOfWeek,
\* hour, avgW), as the node does for a completed hour
LearnHour ==
    \E dayOfWeek \in HistoryWeekdays, hour \in HistoryHours, avgW \in HistoryAverages :
        /\ IF dayOfWeek \in DOMAIN state.historicalData
           THEN state.historicalData[dayOfWeek].sampleCounts[hour] < MaxLearnedSamples
           ELSE TRUE
        /\ state' = [state EXCEPT !.historicalData =
                         updateHistoricalData(state.historicalData, dayOfWeek, hour, avgW)]
        /\ result' = NoObj
        /\ UNCHANGED <<config, tzOffset, now, submitted>>

\* generateForecast(config, state, now, null)
GenerateForecast ==
    \E t \in Stamps(0..MaxHistoryDay, { <<0, 5>> }) :
        /\ result' = Obj(generateForecast(config, state, t, NoObj))
        /\ now' = t
        /\ UNCHANGED <<config, tzOffset, state, submitted>>

NextHistory == LearnHour \/ GenerateForecast
SpecHistory == InitHistory /\ [][NextHistory]_vars

----------------------------------------------------------------------------
(* generateForecast with an external forecast *)

\* the length of an hourly array that is too short
ShortLength == 2

ExternalConfigs ==
    { [SwedenConfig EXCEPT !.forecastSource = "external"],
      [SwedenConfig EXCEPT !.forecastSource = "external", !.batteryEnabled = TRUE],
      [BelgiumConfig EXCEPT !.forecastSource = "external", !.batteryEnabled = TRUE] }

NumberEntry(value) == [ type |-> "number", value |-> value, hour |-> NoHour ]
NullEntry == [ type |-> "null", value |-> Null, hour |-> NoHour ]
ObjectEntry(hour, value) == [ type |-> "object", value |-> value, hour |-> hour ]
PeriodEntry(start, end, expectedPeakW, weight) ==
    [ type |-> "object", start |-> start, end |-> end, expectedPeakW |-> expectedPeakW,
      weight |-> weight ]
NullPeriod == [ type |-> "null", start |-> 0, end |-> 0, expectedPeakW |-> Null,
                weight |-> Null ]

\* arrays of numbers with one hour above the others, of nulls, and of a number
\* followed by nulls
NumberArrays ==
    { [ i \in 0..(len - 1) |-> NumberEntry(IF i = peakHour THEN Num(5000) ELSE Num(100)) ] :
        len \in { 0, ShortLength, 24 }, peakHour \in { 3, 8, 18 } }
NullArrays ==
    { [ i \in 0..(len - 1) |-> IF i < numbers THEN NumberEntry(Num(5000)) ELSE NullEntry ] :
        len \in { ShortLength, 24 }, numbers \in { 0, 1 } }
\* arrays of {hour, expectedW} objects, some with an hour that is no number or
\* out of range, some with a null among them
ObjectArrays ==
    { [ i \in 0..(len - 1) |-> IF i = nullAt THEN NullEntry
                               ELSE ObjectEntry(IF i = 0 THEN hour ELSE 18, Num(4000 + i)) ] :
        len \in { 1, ShortLength }, hour \in { NoHour, 8, 30 }, nullAt \in { -1, 0, 1 } }
PeriodArrays ==
    { << >>,
      << PeriodEntry(7, 9, Num(3000), Num(1)) >>,
      << PeriodEntry(7, 9, Null, Null), PeriodEntry(17, 21, Num(6000), Num(2)) >>,
      << PeriodEntry(7, 9, Num(3000), Num(1)), NullPeriod >> }

\* msg.forecast: missing, an object without periods and hourly, and the three
\* formats
ExternalPayloads ==
    { NoObj, Obj([ kind |-> "object", periods |-> << >>, hourly |-> << >> ]) }
    \cup { Obj([ kind |-> "periods", periods |-> ps, hourly |-> << >> ]) : ps \in PeriodArrays }
    \cup { Obj([ kind |-> kind, periods |-> << >>, hourly |-> a ]) :
             kind \in { "hourly", "array" },
             a \in NumberArrays \cup NullArrays \cup ObjectArrays }

\* result holds the outcome of the last call: whether it raised, and the
\* forecast it returned; submitted holds the payload of that call
InitExternal ==
    /\ config \in ExternalConfigs
    /\ tzOffset = 0
    /\ state = createInitialState
    /\ now = Stamp(0, 0, 0)
    /\ result = NoObj
    /\ submitted = NoObj

\* generateForecast(config, state, now, externalForecast)
ExternalForecast ==
    \E externalForecast \in ExternalPayloads :
        /\ result' = Obj(IF generateForecastThrows(config, externalForecast)
                         THEN [ threw |-> TRUE, forecast |-> NoObj ]
                         ELSE [ threw |-> FALSE,
                                forecast |-> Obj(generateForecast(config, state, now,
                                                                  externalForecast)) ])
        /\ submitted' = externalForecast
        /\ UNCHANGED <<config, tzOffset, state, now>>

NextExternal == ExternalForecast
SpecExternal == InitExternal /\ [][NextExternal]_vars

----------------------------------------------------------------------------
(* runSimulation: the loop over the samples, with its battery model *)

MaxSimSamples == 5

\* the options of a run: a ranked hourly configuration with a battery and a
\* 2 kW minimum limit, discharging greedily or by the time-based forecast's
\* budget, one with a minSoc of its own and one with a target SOC of 110
SimGreedy ==
    [SwedenConfig EXCEPT !.peakCount = 1, !.batteryEnabled = TRUE, !.minimumLimitKw = Num(2)]
SimBudgeted == [SimGreedy EXCEPT !.forecastSource = "time-based"]
SimConfigs ==
    { SimGreedy, SimBudgeted, [SimBudgeted EXCEPT !.minSoc = 10],
      [SimGreedy EXCEPT !.socBuffer = 90] }
\* samplesPerHour: the default of six, and one
SimSamplesPerHour == { 1, 6 }
\* startDate: shortly before the peak window opens, and shortly before it closes
SimStarts(samplesPerHour) ==
    IF samplesPerHour = 1 THEN { <<6, 0>>, <<19, 0>> } ELSE { <<6, 50>>, <<20, 30>> }
\* what the powerGenerator returns
SimPowers == { Num(1000), Num(9000) }
\* initialSoc: null, or a percentage above the floor
SimInitialSocs == { Null, Num(25), Num(95), Num(100) }

\* config.minSoc || 20, minSoc + (config.socBuffer || 20), and the rates
SimMinSoc(cfg) == IF cfg.minSoc = NoMinSoc \/ cfg.minSoc = 0 THEN 20 ELSE cfg.minSoc
SimTargetSoc(cfg) == SimMinSoc(cfg) + (IF cfg.socBuffer = 0 THEN 20 ELSE cfg.socBuffer)
SimCapacityWh(cfg) ==
    IF cfg.batteryCapacityWh = Num(0) THEN Num(10000) ELSE cfg.batteryCapacityWh
SimMaxChargeRateW(cfg) == IF cfg.maxChargeRateW = Num(0) THEN Num(3000) ELSE cfg.maxChargeRateW
\* config.maxDischargeRateW || maxChargeRateW, for a configuration without
\* maxDischargeRateW
SimMaxDischargeRateW(cfg) == SimMaxChargeRateW(cfg)
SimUseForecast(cfg) == cfg.forecastSource # "none" /\ cfg.batteryEnabled

\* new Date(currentTime.getTime() + intervalMinutes * 60 * 1000)
AddMinutes(t, minutes) ==
    LET total == t.minute + minutes
        hours == t.hour + (total \div 60)
    IN  Stamp(t.day + (hours \div 24), hours % 24, total % 60)

\* "Generate/regenerate forecast daily if forecasting is enabled"
SimDailyForecast(sim, cfg, st, t, tz) ==
    IF SimUseForecast(cfg) /\ sim.forecastDate # Obj(IsoDate(t, tz))
    THEN [ sim EXCEPT !.periodEnergyUsed = Obj([k \in {} |-> Num(0)]),
                      !.forecastDate = Obj(IsoDate(t, tz)),
                      !.currentForecast = Obj(generateForecast(cfg, st, t, NoObj)) ]
    ELSE sim

\* a discharge that is not held at the floor
SocAfterDischarge_NoFloor(sim, cfg, rateW) ==
    RSub(sim.currentSoc,
         RMul(RDiv(RMul(rateW, Rat(1, sim.samplesPerHour)), SimCapacityWh(cfg)), Num(100)))

\* the SOC after a discharge, and after a charge, at a rate for one interval
SocAfterDischarge(sim, cfg, rateW) ==
    RMax(Num(SimMinSoc(cfg)),
         RSub(sim.currentSoc,
              RMul(RDiv(RMul(rateW, Rat(1, sim.samplesPerHour)), SimCapacityWh(cfg)), Num(100))))
SocAfterCharge(sim, cfg, rateW) ==
    RMin(Num(100),
         RAdd(sim.currentSoc,
              RMul(RDiv(RMul(rateW, Rat(1, sim.samplesPerHour)), SimCapacityWh(cfg)), Num(100))))

\* "Budget-based discharge using forecasting"
SimBudgetedDischarge(sim, cfg, hour, rawPower) ==
    LET info == calculateBudgetedDischarge(cfg, [periodEnergyUsed |-> sim.periodEnergyUsed],
                    sim.currentForecast, hour, rawPower, sim.currentSoc,
                    Num(SimMinSoc(cfg)), SimCapacityWh(cfg))
        rateW == RMin(info.dischargeW, SimMaxDischargeRateW(cfg))
        energyWh == RMul(rateW, Rat(1, sim.samplesPerHour))
        used == Val(sim.periodEnergyUsed)
    IN  IF RGt(info.dischargeW, Num(0)) /\ RGt(sim.currentSoc, Num(SimMinSoc(cfg)))
        THEN [ sim EXCEPT
                 !.dischargeInfo = Obj(info),
                 !.dischargeRateW = rateW,
                 !.currentSoc = SocAfterDischarge(sim, cfg, rateW),
                 !.periodEnergyUsed =
                     IF IsObj(info.periodKey)
                     THEN Obj([ k \in DOMAIN used \cup { Val(info.periodKey) } |->
                                  IF k = Val(info.periodKey)
                                  THEN RAdd(UsedWh(sim, k), energyWh) ELSE used[k] ])
                     ELSE @,
                 !.effectiveGridPower = RMax(Num(0), RSub(rawPower, rateW)),
                 !.batteryAction = "discharging" ]
        ELSE [ sim EXCEPT !.dischargeInfo = Obj(info) ]

\* "GREEDY discharge: Target is the minimum limit"
SimGreedyDischarge(sim, cfg, rawPower) ==
    LET excessPower == RSub(rawPower, RMul(cfg.minimumLimitKw, Num(1000)))
        availableEnergyWh ==
            RMul(RDiv(RSub(sim.currentSoc, Num(SimMinSoc(cfg))), Num(100)), SimCapacityWh(cfg))
        rateW == RMax(Num(0),
                      RMin(RMin(SimMaxDischargeRateW(cfg),
                                RDiv(availableEnergyWh, Rat(1, sim.samplesPerHour))),
                           excessPower))
    IN  IF RGt(excessPower, Num(0)) /\ RGt(sim.currentSoc, Num(SimMinSoc(cfg)))
        THEN [ sim EXCEPT
                 !.dischargeRateW = rateW,
                 !.currentSoc = SocAfterDischarge(sim, cfg, rateW),
                 !.effectiveGridPower = RMax(Num(0), RSub(rawPower, rateW)),
                 !.batteryAction = "discharging" ]
        ELSE sim

\* "OFF-PEAK HOURS: Charge battery to prepare for peak shaving"
SimCharge(sim, cfg, hour) ==
    LET hoursUntilPeak == IF cfg.peakHoursStart - hour <= 0
                          THEN cfg.peakHoursStart - hour + 24
                          ELSE cfg.peakHoursStart - hour
        energyDeficitWh ==
            RMul(RDiv(RSub(Num(SimTargetSoc(cfg)), sim.currentSoc), Num(100)), SimCapacityWh(cfg))
        rateW == RMin(SimMaxChargeRateW(cfg),
                      RMax(Num(0), RDiv(energyDeficitWh, Num(hoursUntilPeak))))
    IN  IF RLt(sim.currentSoc, Num(SimTargetSoc(cfg)))
        THEN [ sim EXCEPT !.chargeRateW = rateW,
                          !.currentSoc = SocAfterCharge(sim, cfg, rateW),
                          !.batteryAction = "charging" ]
        ELSE sim

\* "Battery charge/discharge simulation" for one sample, from an idle battery
SimBattery(sim, cfg, hour, rawPower) ==
    IF ~cfg.batteryEnabled THEN sim
    ELSE IF hour >= cfg.peakHoursStart /\ hour < cfg.peakHoursEnd
    THEN IF SimUseForecast(cfg) /\ IsObj(sim.currentForecast)
         THEN SimBudgetedDischarge(sim, cfg, hour, rawPower)
         ELSE SimGreedyDischarge(sim, cfg, rawPower)
    ELSE SimCharge(sim, cfg, hour)

\* submitted holds here the variables of the run: its samplesPerHour, the
\* number of samples done, currentTime, the battery model's currentSoc, the
\* forecast with its date and the energy spent per period, the last sample's
\* rates, action, raw and effective power and budgeted recommendation, and the
\* baseline tracker's state; state, result and now are the tracker's state and
\* result and the time of the last sample
InitSim ==
    /\ config \in SimConfigs
    /\ tzOffset = 0
    /\ state = createInitialState
    /\ now = Stamp(0, 0, 0)
    /\ result = NoObj
    /\ \E samplesPerHour \in SimSamplesPerHour, initialSoc \in SimInitialSocs :
       \E start \in SimStarts(samplesPerHour) :
          submitted = [ samplesPerHour |-> samplesPerHour,
                        sample |-> 0,
                        currentTime |-> Stamp(0, start[1], start[2]),
                        currentSoc |-> IF IsNull(initialSoc) THEN Num(SimTargetSoc(config))
                                       ELSE initialSoc,
                        currentForecast |-> NoObj,
                        forecastDate |-> NoObj,
                        periodEnergyUsed |-> Obj([k \in {} |-> Num(0)]),
                        chargeRateW |-> Num(0),
                        dischargeRateW |-> Num(0),
                        batteryAction |-> "idle",
                        rawPower |-> Num(0),
                        effectiveGridPower |-> Num(0),
                        dischargeInfo |-> NoObj,
                        baselineState |-> createInitialState ]

\* one pass of the loop: the power of the sample, the battery model, the
\* tracker on the battery-adjusted power and the baseline tracker on the raw
\* power, updateLastOutput for a changed output, and the clock
SimStep ==
    /\ submitted.sample < MaxSimSamples
    /\ \E rawPower \in SimPowers :
       \E t \in { submitted.currentTime } :
       \E idle \in { [ submitted EXCEPT !.chargeRateW = Num(0), !.dischargeRateW = Num(0),
                                        !.batteryAction = "idle", !.rawPower = rawPower,
                                        !.effectiveGridPower = rawPower,
                                        !.dischargeInfo = NoObj ] } :
       \E batteryState \in { IF config.batteryEnabled
                              THEN Obj([ soc |-> RFloor(submitted.currentSoc),
                                         minSoc |-> SimMinSoc(config) ])
                              ELSE NoObj } :
       \E forecast \in { IF config.batteryEnabled
                          THEN SimDailyForecast(idle, config, state, t, tzOffset)
                          ELSE idle } :
       \E sim \in { SimBattery(forecast, config, getHours(t), rawPower) } :
       \E s1 \in { AfterMonthCheck(state, config, t) } :
       \E tracked \in { Track(s1, config, t, tzOffset, ImportPower(sim.effectiveGridPower)) } :
       \E lim \in { TargetLimit(tracked.state, config, batteryState) } :
       \E outputLimitA \in { OutputLimitA(config, t, lim) } :
       \E res \in { ResultObj(state, s1, tracked.state, config, t, tracked, lim,
                              outputLimitA) } :
       \E b1 \in { AfterMonthCheck(submitted.baselineState, config, t) } :
       \E baseline \in { Track(b1, config, t, tzOffset, ImportPower(rawPower)) } :
          /\ state' = IF res.outputChanged
                      THEN updateLastOutput(tracked.state, res.outputLimitA)
                      ELSE tracked.state
          /\ result' = Obj(res)
          /\ now' = t
          /\ submitted' = [ sim EXCEPT !.sample = @ + 1,
                                       !.currentTime = AddMinutes(t, 60 \div sim.samplesPerHour),
                                       !.baselineState = baseline.state ]
          /\ UNCHANGED <<config, tzOffset>>

NextSim == SimStep
SpecSim == InitSim /\ [][NextSim]_vars

----------------------------------------------------------------------------
(* Properties *)

SortedDesc(peaks) ==
    \A i \in 1..(Len(peaks) - 1) : RGe(peaks[i].effective, peaks[i + 1].effective)

\* C1: after any sequence of recordPeak calls from an empty list, state.peaks is
\* ordered non-increasing by effective value (also after a call that returned
\* 'updated').  The code re-sorts only when it appends, so this is violated.
C1_RankingInvariant == SortedDesc(state.peaks)

EntriesFor(peaks, date) == { i \in 1..Len(peaks) : peaks[i].date = date }

\* C5: with onePeakPerDay, after every recordPeak call there is at most one entry
\* per date, the entry of a date carries the largest effective value ever
\* submitted for it, and a submission that ties the stored value returns 'kept'
\* and leaves the list as it was.
C5_OnePerDay ==
    [][ (config.onePeakPerDay /\ IsObj(result')) =>
          /\ \A d \in RecordDates :
                /\ Cardinality(EntriesFor(state'.peaks, d)) <= 1
                /\ ~IsNull(submitted'[d]) =>
                      \E i \in EntriesFor(state'.peaks, d) :
                          state'.peaks[i].effective = submitted'[d]
          /\ (\E i \in EntriesFor(state.peaks, result'[1].date) :
                  state.peaks[i].effective = result'[1].effective)
                => (result'[1].ret = "kept" /\ state'.peaks = state.peaks) ]_vars

\* C5's case: a second submission for a date tied the stored value and was kept,
\* after a larger one had replaced a smaller one on another date
C5_Witness ==
    /\ config.onePeakPerDay
    /\ IsObj(result)
    /\ result[1].ret = "kept"
    /\ \E i \in EntriesFor(state.peaks, result[1].date) :
           state.peaks[i].effective = result[1].effective
    /\ Len(state.peaks) >= 2

\* the record the latest processGridPower call returned
Res == result[1]
MinimumLimitW(cfg) == RMul(cfg.minimumLimitKw, Num(1000))
\* the headroom of a call without battery telemetry
FixedHeadroomW(cfg) == calculateDynamicHeadroomW(cfg, NoObj)
\* the n-th largest effective value among the recorded peaks
NthLargest(peaks, n) == SortDesc(peaks)[n].effective
\* the mean of the n largest effective values (of all, when there are fewer)
MeanOfLargest(peaks, n) ==
    RDiv(SumEffective(SliceFirst(SortDesc(peaks), n)), Num(Min2(Len(peaks), n)))
\* the current a power is converted to: watts / (phases * voltage), capped at the
\* breaker current, rounded to 0.1 A
AmpsFor(watts, cfg) ==
    RoundTenth(RMin(RDiv(watts, Num(cfg.phases * cfg.gridVoltage)), cfg.maxBreakerCurrent))

\* C2: every processGridPower call returns 0 <= outputLimitA <= maxBreakerCurrent.
\* The final rounding to 0.1 A rounds a breaker current of 16.25 A up to 16.3 A.
C2_OutputBounds ==
    IsObj(result) =>
        /\ RLe(Num(0), Res.outputLimitA)
        /\ RLe(Res.outputLimitA, config.maxBreakerCurrent)

\* the completed hour's own hour, weekday and month: those of the last sample
\* accumulated into it
OwnPeriodQualifies ==
    /\ isInPeakHours(state.currentHour, getDay(now), getMonth(now) + 1, config)
    /\ isInPeakSeason(getMonth(now) + 1, config)

\* C3: a completed hour is recorded only if its own hour, weekday and month are
\* inside peak hours and peak season; one that is not is reported 'skipped' and
\* leaves the registry unchanged.  The code tests the weekday and month of the
\* completing sample instead.
C3_OnlyQualifyingPeriods ==
    [][ (IsObj(result') /\ IsObj(result'[1].hourCompleted)) =>
          (~OwnPeriodQualifies =>
               /\ result'[1].hourCompleted[1].result = "skipped"
               /\ state'.peaks = state.peaks
               /\ state'.currentMonthPeak = state.currentMonthPeak) ]_vars

\* C4: in ranked mode with at least peakCount recorded peaks the engine is not
\* learning and targetLimitW = max(v - headroomW, minimumLimitKw * 1000), v the
\* peakCount-th largest effective value.  Fails after an in-place update (C1).
C4_TargetFromNthLargest ==
    (IsObj(result) /\ ~config.singlePeakMode /\ Len(state.peaks) >= config.peakCount) =>
        /\ ~Res.isLearning
        /\ Res.targetLimitW =
              RMax(RSub(NthLargest(state.peaks, config.peakCount), FixedHeadroomW(config)),
                   MinimumLimitW(config))

\* C6: in ranked mode with k >= 1 peaks, a call in another calendar month reports
\* monthReset, stores the mean of the min(k, peakCount) largest effective values
\* as previousMonthPeakAvgW, empties state.peaks and sets currentMonth.  Fails
\* when the list was left unsorted by an in-place update (C1).
C6_RolloverCarryover ==
    [][ ( /\ IsObj(result')
          /\ ~config.singlePeakMode
          /\ Len(state.peaks) >= 1
          /\ state.currentMonth # getMonth(now') ) =>
          /\ result'[1].monthReset
          /\ state'.previousMonthPeakAvgW = MeanOfLargest(state.peaks, config.peakCount)
          /\ state'.peaks = << >>
          /\ state'.currentMonth = getMonth(now') ]_vars

\* a call with annual billing enabled that finds another month than the
\* engine's
BillingRollover ==
    /\ IsObj(result')
    /\ config.annualBillingEnabled
    /\ state.currentMonth # NoMonth
    /\ state.currentMonth # getMonth(now')

\* the last n elements of a sequence, none for n = 0
LastN(seq, n) == SubSeq(seq, Len(seq) - Min2(n, Len(seq)) + 1, Len(seq))

\* the outgoing period has a figure: a ranked list that is not empty, or a
\* single peak
OutgoingPeriodHasPeak ==
    IF config.singlePeakMode THEN IsObj(state.currentMonthPeak) ELSE Len(state.peaks) >= 1

PlainLearning ==
    /\ IsObj(result)
    /\ ~config.singlePeakMode
    /\ Len(state.peaks) < config.peakCount
    /\ (config.learningMode = "learning" \/ ~RGt(state.previousMonthPeakAvgW, Num(0)))

\* C8: in ranked mode with fewer than peakCount peaks and no carryover in effect,
\* the call returns isLearning, not usingCarryover, targetLimitW = null, and in
\* peak hours in season outputLimitA is the minimum floor in amps, capped at the
\* breaker current and rounded to 0.1 A.
C8_PlainLearningFloor ==
    PlainLearning =>
        /\ Res.isLearning
        /\ ~Res.usingCarryover
        /\ IsNull(Res.targetLimitW)
        /\ (Res.inPeakHours /\ Res.inPeakSeason) =>
               Res.outputLimitA = AmpsFor(MinimumLimitW(config), config)

\* C8's case: a learning call in peak hours, both without carryover configured
\* and with carryover configured but no previous month
C8_Witness ==
    /\ PlainLearning
    /\ Res.inPeakHours /\ Res.inPeakSeason
    /\ Len(state.peaks) = 1
    /\ Res.outputLimitA = Rat(58, 10)

CarryoverLearning ==
    /\ IsObj(result)
    /\ ~config.singlePeakMode
    /\ Len(state.peaks) < config.peakCount
    /\ config.learningMode = "carryover"
    /\ RGt(state.previousMonthPeakAvgW, Num(0))

\* previousMonthPeakAvgW * previousMonthCarryover / 100 - headroomW, floored
CarryoverTargetW ==
    RMax(RSub(RDiv(RMul(state.previousMonthPeakAvgW, Num(config.previousMonthCarryover)),
                   Num(100)),
              FixedHeadroomW(config)),
         MinimumLimitW(config))

\* C9: learning with learningMode 'carryover' and previousMonthPeakAvgW > 0 gives
\* targetLimitW = max(previous * carryover/100 - headroomW, floor), isLearning and
\* usingCarryover, and in peak hours the output current is that target in amps.
C9_CarryoverTarget ==
    CarryoverLearning =>
        /\ Res.isLearning
        /\ Res.usingCarryover
        /\ Res.targetLimitW = CarryoverTargetW
        /\ (Res.inPeakHours /\ Res.inPeakSeason) =>
               Res.outputLimitA = AmpsFor(CarryoverTargetW, config)

\* C9's example: 5000 W, 80 %, 300 W headroom, 2000 W floor give 3700 W, and the
\* output in peak hours follows it (5.4 A) and not the floor (2.9 A)
C9_Witness ==
    /\ CarryoverLearning
    /\ state.previousMonthPeakAvgW = Num(5000)
    /\ config.minimumLimitKw = Num(2)
    /\ Res.targetLimitW = Num(3700)
    /\ Res.inPeakHours /\ Res.inPeakSeason
    /\ Res.outputLimitA = Rat(54, 10)

\* C10: in ranked mode the first call of every billing month is in the learning
\* phase, and once a call of a month reports isLearning = false every later call
\* of that month does too.
C10_LearningNotReentered ==
    [][ (IsObj(result') /\ ~config.singlePeakMode) =>
          /\ (~IsObj(result) \/ result'[1].monthReset) => result'[1].isLearning
          /\ (IsObj(result) /\ ~result[1].isLearning /\ ~result'[1].monthReset)
                => ~result'[1].isLearning ]_vars

\* C10's case: a month that left the learning phase, and a rollover that
\* re-entered it
C10_Witness ==
    /\ IsObj(result)
    /\ ~Res.monthReset
    /\ ~Res.isLearning
    /\ ~IsNull(state.previousMonthPeakAvgW)
    /\ config.peakCount = 2

\* the battery state of the last calculateChargeRate call, when it carried a
\* numeric soc
ValidBattery == IsObj(submitted.battery) /\ Val(submitted.battery).soc # NonNumericSoc
LastSoc == Val(submitted.battery).soc
LastMinSoc ==
    IF Val(submitted.battery).minSoc = NoMinSoc THEN 20 ELSE Val(submitted.battery).minSoc
LastTargetSoc ==
    IF LastMinSoc + config.socBuffer < 100 THEN LastMinSoc + config.socBuffer ELSE 100
NowInPeak ==
    /\ isInPeakHours(getHours(now), getDay(now), getMonth(now) + 1, config)
    /\ isInPeakSeason(getMonth(now) + 1, config)

\* C11: a calculateChargeRate call with valid battery data inside peak hours
\* and peak season recommends 0 W with charging = false and leaves
\* state.isBalancing = false and state.balancingStartTime = null, whatever the
\* balancing state was before.
C11_PeakHoursDischarge ==
    (IsObj(result) /\ ValidBattery /\ NowInPeak) =>
        /\ Res.chargeRateW = Num(0)
        /\ ~Res.charging
        /\ ~state.isBalancing
        /\ state.balancingStartTime = NoObj

\* C11's case: the call arrived in peak hours while a balancing cycle was active
C11_Witness ==
    /\ IsObj(result)
    /\ ValidBattery
    /\ NowInPeak
    /\ submitted.wasBalancing
    /\ ~state.isBalancing

InBalancingWindow(t) ==
    /\ getHours(t) >= config.batteryBalancing.startTime
    /\ getHours(t) < config.batteryBalancing.endTime

\* C12: balancing is one-shot per qualifying window: once a cycle has completed
\* on a day, a later call inside that day's balancing window does not start a
\* new cycle, even with the SOC at or above the trigger threshold.  The code
\* keeps no record of the completed cycle, so this is violated.
C12_OneShotPerWindow ==
    [][ ( /\ now'.day \in submitted.completed
          /\ InBalancingWindow(now')
          /\ ~state.isBalancing )
            => ~state'.isBalancing ]_vars

\* the calls the anticipatory-charging rule applies to: valid battery data,
\* outside peak hours, and not answered by the balancing logic
OffPeakNotBalancing ==
    /\ IsObj(result)
    /\ ValidBattery
    /\ ~NowInPeak
    /\ ~Res.balancingActive
RequiredRateW ==
    RMin(RDiv(RMul(Rat(LastTargetSoc - LastSoc, 100), config.batteryCapacityWh),
              calculateHoursUntilPeak(now, config)),
         config.maxChargeRateW)
IsMultipleOfTen(x) == IsNum(x) /\ RDiv(x, Num(10))[2] = 1
NearestTen(x, raw) ==
    /\ IsMultipleOfTen(x)
    /\ RLe(RSub(x, raw), Num(5))
    /\ RLe(RSub(raw, x), Num(5))

\* C13: off-peak and not balancing, with targetSoc = min(minSoc + socBuffer,
\* 100): soc >= targetSoc gives chargeRateW = 0 with reason 'SOC sufficient';
\* otherwise chargeRateW is min(deficit energy / hoursUntilPeak, maxChargeRateW)
\* rounded to the nearest 10 W, and charging is true exactly when
\* chargeRateW > 0.
C13_AnticipatoryRate ==
    OffPeakNotBalancing =>
        /\ Res.targetSoc = Num(LastTargetSoc)
        /\ Res.charging <=> RGt(Res.chargeRateW, Num(0))
        /\ IF LastSoc >= LastTargetSoc
           THEN Res.chargeRateW = Num(0) /\ Res.reason = "SOC sufficient"
           ELSE NearestTen(Res.chargeRateW, RequiredRateW)

\* C13's case: a deficit whose required rate is below the cap and not a
\* multiple of 10 W, so the rounding shows
C13_Witness ==
    /\ OffPeakNotBalancing
    /\ LastSoc < LastTargetSoc
    /\ RLt(RequiredRateW, config.maxChargeRateW)
    /\ ~IsMultipleOfTen(RequiredRateW)
    /\ Res.charging

\* the example of C14: soc 40, minSoc 50, socBuffer 20, 10 kWh, two hours
\* before the peak window opens, the cap above the required rate
TwoHourExample ==
    /\ OffPeakNotBalancing
    /\ submitted.battery = Obj([soc |-> 40, minSoc |-> 50])
    /\ config.socBuffer = 20
    /\ config.batteryCapacityWh = Num(10000)
    /\ RGt(config.maxChargeRateW, Num(1500))
    /\ ~config.weekdaysOnly
    /\ isInPeakSeason(getMonth(now) + 1, config)
    /\ getHours(now) = config.peakHoursStart - 2
    /\ getMinutes(now) = 0

\* C14 as stated: the example recommends chargeRateW = 3000
C14_ExampleRate3000 == TwoHourExample => Res.chargeRateW = Num(3000)

\* C14: in the example the deficit is 30 % of 10 kWh = 3000 Wh, spread over the
\* two hours until the peak window: chargeRateW = 1500
C14_ExampleRate1500 == TwoHourExample => Res.chargeRateW = Num(1500)

\* C14's case, with a cap (5000 W) above even the 3000 W of the statement
C14_Witness ==
    /\ TwoHourExample
    /\ RGt(config.maxChargeRateW, Num(3000))
    /\ Res.charging

\* max(3000 - headroomW, minimumLimitW) for the constant 3000 W load
StableTargetW ==
    RMax(RSub(ConstantPowerW, FixedHeadroomW(config)), MinimumLimitW(config))

Rules == config.dynamicHeadroom.rules
SortedByThreshold ==
    \A i \in 1..(Len(Rules) - 1) : Rules[i].socLessThan <= Rules[i + 1].socLessThan
HeadroomsNonIncreasing ==
    \A i \in 1..(Len(Rules) - 1) : RGe(Rules[i].headroomKw, Rules[i + 1].headroomKw)

\* C16 as stated: with dynamic headroom enabled and the rule table sorted
\* ascending by socLessThan, s1 <= s2 implies headroom(s1) >= headroom(s2)
C16_MonotoneWhenSorted ==
    (IsObj(result) /\ config.dynamicHeadroom.enabled /\ SortedByThreshold)
        => RGe(Res.headroom1, Res.headroom2)

\* C16: with dynamic headroom enabled, the table sorted ascending by
\* socLessThan and its headroomKw values non-increasing along the table,
\* s1 <= s2 implies headroom(s1) >= headroom(s2) for readings below the
\* largest threshold, and for all readings when the fixed headroom is not
\* above the last rule's (or the table is empty)
C16_MonotoneWhenHeadroomsDescend ==
    (IsObj(result) /\ config.dynamicHeadroom.enabled /\ SortedByThreshold
        /\ HeadroomsNonIncreasing)
        => \/ RGe(Res.headroom1, Res.headroom2)
           \/ /\ Len(Rules) > 0
              /\ Val(submitted).soc2 >= Rules[Len(Rules)].socLessThan
              /\ RGt(config.headroomKw, Rules[Len(Rules)].headroomKw)

\* C16's case: a two-step table and two readings on different steps
C16_Witness ==
    /\ IsObj(result)
    /\ config.dynamicHeadroom.enabled
    /\ Len(Rules) = 2
    /\ Rules[1].socLessThan < Rules[2].socLessThan
    /\ RGt(Rules[1].headroomKw, Rules[2].headroomKw)
    /\ Val(submitted).soc1 < Rules[1].socLessThan
    /\ Val(submitted).soc2 >= Rules[1].socLessThan
    /\ Val(submitted).soc2 < Rules[2].socLessThan
    /\ RGt(Res.headroom1, Res.headroom2)

\* the arguments of the last allocateBudget call
Arg == Val(submitted)
ArgPeriods == Arg.forecast.periods
RECURSIVE SumOfWeights(_)
SumOfWeights(periods) ==
    IF Len(periods) = 0 THEN Num(0)
    ELSE RAdd(SumOfWeights(SubSeq(periods, 1, Len(periods) - 1)), periods[Len(periods)].weight)
AllocatableWh ==
    RMul(Arg.usableCapacityWh, RSub(Num(1), RDiv(Num(Arg.bufferPercent), Num(100))))

\* C17: for a non-empty list of periods with non-negative weights,
\* allocateBudget reserves bufferPercent % of usableCapacityWh and gives each
\* period allocatable * weight_i / (sum of the weights), and an equal share of
\* the allocatable energy when every weight is zero.  A zero weight is replaced
\* by the period's expectedPeakW in the code, so this is violated.
C17_ProportionalToWeight ==
    ( /\ IsObj(result)
      /\ Len(ArgPeriods) > 0
      /\ \A i \in 1..Len(ArgPeriods) : IsNum(ArgPeriods[i].weight) )
        => /\ Res.bufferWh = RSub(Arg.usableCapacityWh, AllocatableWh)
           /\ Res.totalBudgetWh = AllocatableWh
           /\ \A i \in 1..Len(ArgPeriods) :
                Res.periods[i].budgetWh =
                    IF SumOfWeights(ArgPeriods) = Num(0)
                    THEN RDiv(AllocatableWh, Num(Len(ArgPeriods)))
                    ELSE RDiv(RMul(AllocatableWh, ArgPeriods[i].weight), SumOfWeights(ArgPeriods))

\* C18: in single-peak mode, after any sequence of submissions of one billing
\* period currentMonthPeak holds the largest effective value submitted so far;
\* a submission returns 'updated' exactly when it is the first or strictly
\* greater than the stored value, and 'kept' otherwise, leaving the stored
\* record as it was (a tie keeps the earlier record).
C18_SinglePeakIsMaximum ==
    [][ IsObj(result') =>
          /\ IsObj(state'.currentMonthPeak)
          /\ state'.currentMonthPeak[1].effective = submitted'.largest
          /\ result'[1].ret \in {"updated", "kept"}
          /\ result'[1].ret = "updated" <=>
                \/ ~IsObj(state.currentMonthPeak)
                \/ RGt(submitted'.effective, state.currentMonthPeak[1].effective)
          /\ result'[1].ret = "updated" =>
                /\ state'.currentMonthPeak[1].intervalId = submitted'.intervalId
                /\ state'.currentMonthPeak[1].effective = submitted'.effective
          /\ result'[1].ret = "kept" => state'.currentMonthPeak = state.currentMonthPeak ]_vars

\* C18's example: 5000 W is stored, 4000 W is submitted for another interval
\* and the call returns 'kept'
C18_Witness ==
    /\ IsObj(result)
    /\ Res.ret = "kept"
    /\ IsObj(state.currentMonthPeak)
    /\ Val(state.currentMonthPeak).effective = Num(5000)
    /\ submitted.effective = Num(4000)
    /\ submitted.intervalId # Val(state.currentMonthPeak).intervalId

\* the hours 22..23 and 0..5
InNightHours(hour) == hour \in {22, 23} \cup 0..5
\* what the night discount makes of an average measured in the given hour
DiscountedW(avgW, hour) ==
    IF config.nightDiscount /\ InNightHours(hour) THEN RDiv(avgW, Num(2)) ELSE avgW

\* C19: for every completed hour or interval the effective value is half the
\* period's average when nightDiscount is enabled and the period's hour (the
\* clock hour of its readings) is in 22..23 or 0..5, and the average otherwise;
\* effective <= raw.  In interval mode the hour is read from the UTC interval
\* identifier, so away from UTC this is violated.
C19_NightDiscount ==
    [][ IsObj(result') =>
          /\ IsObj(result'[1].hourCompleted) =>
                /\ result'[1].hourCompleted[1].effectiveW =
                       DiscountedW(result'[1].hourCompleted[1].avgW, getHours(now))
                /\ RLe(result'[1].hourCompleted[1].effectiveW, result'[1].hourCompleted[1].avgW)
          /\ IsObj(result'[1].intervalCompleted) =>
                /\ result'[1].intervalCompleted[1].effectiveW =
                       DiscountedW(result'[1].intervalCompleted[1].avgW, getHours(now))
                /\ RLe(result'[1].intervalCompleted[1].effectiveW,
                       result'[1].intervalCompleted[1].avgW) ]_vars

\* the wrap-aware gap between the stored hour and the hour of the call
HourGap(stored, current) == (current - stored + 24) % 24

\* C20: in hourly mode with downtime detection enabled and an action other
\* than 'ignore', a call whose hour differs from the hour stored in the state
\* reports downtime = {fromHour: stored, toHour: current, missedHours: gap - 1}
\* exactly when gap = (current - stored + 24) mod 24 >= triggerHours, and
\* downtime = null in every other case.  The first call of a new month clears
\* the stored hour before the detection runs, so this is violated.
C20_DowntimeReported ==
    [][ (IsObj(result') /\ ~UseIntervalTracking(config)) =>
          IF /\ state.currentHour # NoHour
             /\ state.currentHour # getHours(now')
             /\ config.downtimeDetection.enabled
             /\ config.downtimeDetection.action # "ignore"
             /\ HourGap(state.currentHour, getHours(now')) >= config.downtimeDetection.triggerHours
          THEN result'[1].downtime =
                   Obj([ fromHour |-> state.currentHour, toHour |-> getHours(now'),
                         missedHours |-> HourGap(state.currentHour, getHours(now')) - 1 ])
          ELSE result'[1].downtime = NoObj ]_vars

\* C21: calculateChargeRate, and getBatteryStatus with the battery enabled,
\* called with a missing battery state or a non-numeric soc return
\* chargeRateW = 0, charging = false and reason 'no battery data', and leave
\* state.isBalancing and state.balancingStartTime as they were.
C21_NoBatteryData ==
    [][ (IsObj(result') /\ ~( /\ IsObj(submitted'.battery)
                              /\ submitted'.battery[1].soc # NonNumericSoc )) =>
          /\ result'[1].chargeRateW = Num(0)
          /\ ~result'[1].charging
          /\ result'[1].reason = "no battery data"
          /\ state'.isBalancing = state.isBalancing
          /\ state'.balancingStartTime = state.balancingStartTime ]_vars

\* C21's case: getBatteryStatus without battery data in the middle of a
\* balancing hold
C21_Witness ==
    /\ IsObj(result)
    /\ ~ValidBattery
    /\ "available" \in DOMAIN Res
    /\ ~Res.available
    /\ state.isBalancing
    /\ IsObj(state.balancingStartTime)

\* C22: whenever the timestamp of the call is outside the peak season or
\* outside peak hours (Saturday and Sunday included when weekdaysOnly is set),
\* processGridPower returns outputLimitA = maxBreakerCurrent, whatever peaks
\* are recorded and whether or not the engine is learning.  The final rounding
\* to 0.1 A turns a breaker current of 16.25 A into 16.3 A.
C22_OffPeakIsBreakerCurrent ==
    (IsObj(result) /\ ~NowInPeak) => Res.outputLimitA = config.maxBreakerCurrent

\* the accumulator of the configured measurement: the period it belongs to, its
\* sum and its sample count
AccMarker(st) == IF UseIntervalTracking(config) THEN st.currentInterval ELSE <<st.currentHour>>
AccSum(st) == IF UseIntervalTracking(config) THEN st.currentIntervalSum ELSE st.currentHourSum
AccSamples(st) ==
    IF UseIntervalTracking(config) THEN st.currentIntervalSamples ELSE st.currentHourSamples
NonNegative(x) == IsNum(x) /\ RGe(x, Num(0))
CompletedNonNegative(c) ==
    IsObj(c) => NonNegative(c[1].avgW) /\ NonNegative(c[1].effectiveW)

C24_LimitMessageOnChange ==
    [][ now' # now =>
          LET emitted == IsObj(submitted'.limitMsg)
              limit == result'[1].outputLimitA
          IN  /\ submitted.started => emitted
              /\ ~submitted.started => (emitted <=> limit # submitted.lastEmitted)
              /\ emitted => submitted'.limitMsg[1] = limit /\ state'.lastOutputLimitA = limit
              /\ ~emitted => state'.lastOutputLimitA = state.lastOutputLimitA ]_vars

\* the same for the inputs of a node whose battery support is switched off
C24_LimitMessageWithoutBattery ==
    [][ (now' # now /\ ~config.batteryEnabled) =>
          LET emitted == IsObj(submitted'.limitMsg)
              limit == result'[1].outputLimitA
          IN  /\ submitted.started => emitted
              /\ ~submitted.started => (emitted <=> limit # submitted.lastEmitted)
              /\ emitted => submitted'.limitMsg[1] = limit /\ state'.lastOutputLimitA = limit
              /\ ~emitted => state'.lastOutputLimitA = state.lastOutputLimitA ]_vars

\* a call made off-peak with valid battery data while a balancing cycle was active
BalancingCall ==
    /\ IsObj(result') /\ now' # now
    /\ state.isBalancing
    /\ IsObj(submitted'.battery) /\ submitted'.battery[1].soc # NonNumericSoc
    /\ ~result'[1].inPeakHours
\* the hold timer as the call finds it, started by the call if it was not running
HoldStart == IF IsObj(state.balancingStartTime) THEN state.balancingStartTime[1] ELSE getTime(now')
HoursHeld == Rat(getTime(now') - HoldStart, 60)
\* the recommendation of the same call for a configuration without balancing
NormalRecommendation ==
    calculateChargeRate(state', [config EXCEPT !.batteryBalancing.enabled = FALSE],
                        submitted'.battery, now').result
\* what C25 says of a balancing call, with the charging recommendation equal to
\* maxChargeRateW (exact) or the multiple of 10 W nearest to it
BalancingStep(exact) ==
    LET soc == submitted'.battery[1].soc
        bc == config.batteryBalancing
        res == result'[1]
    IN  IF soc < bc.targetSoc
        THEN /\ IF exact THEN res.chargeRateW = config.maxChargeRateW
                         ELSE NearestTen(res.chargeRateW, config.maxChargeRateW)
             /\ res.charging /\ res.balancingActive
             /\ state'.isBalancing /\ state'.balancingStartTime = NoObj
        ELSE IF RLt(HoursHeld, Num(bc.holdHours))
        THEN /\ res.chargeRateW = Num(0) /\ ~res.charging /\ res.balancingActive
             /\ state'.isBalancing /\ state'.balancingStartTime = Obj(HoldStart)
        ELSE /\ ~state'.isBalancing /\ state'.balancingStartTime = NoObj
             /\ ~res.balancingActive
             /\ res.chargeRateW = NormalRecommendation.chargeRateW
             /\ res.charging = NormalRecommendation.charging
             /\ res.reason = NormalRecommendation.reason
             /\ res.targetSoc = NormalRecommendation.targetSoc

\* C25: while balancing is active off-peak, a call with soc below the balancing
\* target recommends charging at maxChargeRateW and clears the hold timer; a call
\* with soc at or above the target starts the timer if it is not running and
\* recommends 0 W while less than holdHours have elapsed; the first call at or
\* after holdHours of holding ends balancing and returns the normal
\* recommendation with balancingActive = false.
C25_BalancingCycle ==
    [][ BalancingCall => BalancingStep(TRUE) ]_vars

\* C25 with the charging recommendation as returned: maxChargeRateW rounded to
\* the nearest 10 W
C25_BalancingCycleRounded ==
    [][ BalancingCall => BalancingStep(FALSE) ]_vars

\* C25's case: a cycle that was holding ended on the call made exactly holdHours
\* after the hold began
C25_Witness ==
    /\ IsObj(result) /\ ValidBattery /\ ~NowInPeak
    /\ submitted.wasBalancing /\ ~state.isBalancing
    /\ now.day \in submitted.completed
    /\ getHours(now) = 3
    /\ Res.reason = "SOC sufficient"

\* a call made off-peak with valid battery data while no balancing cycle was active
EntryCall ==
    /\ IsObj(result') /\ now' # now
    /\ ~state.isBalancing
    /\ IsObj(submitted'.battery) /\ submitted'.battery[1].soc # NonNumericSoc
    /\ ~result'[1].inPeakHours
    /\ config.batteryBalancing.holdHours > 0
\* the conditions under which C26 lets a cycle begin
EntryConditions ==
    /\ config.batteryBalancing.enabled /\ config.batteryEnabled
    /\ getHours(now') >= config.batteryBalancing.startTime
    /\ getHours(now') < config.batteryBalancing.endTime
    /\ submitted'.battery[1].soc >= config.batteryBalancing.socThreshold
\* the hold of the running cycle is complete at this call
HoldComplete ==
    /\ submitted'.battery[1].soc >= config.batteryBalancing.targetSoc
    /\ RGe(HoursHeld, Num(config.batteryBalancing.holdHours))

\* C26: from isBalancing = false and holdHours > 0, an off-peak call with valid
\* battery data enters balancing exactly when balancing and the battery are
\* enabled, the hour is in [startTime, endTime) and soc >= socThreshold;
\* otherwise isBalancing stays false and balancingStartTime null.  A cycle that
\* was entered goes on at later off-peak calls, outside the window and below the
\* threshold too, until its hold is complete.
C26_BalancingEntry ==
    [][ /\ EntryCall =>
              /\ (state'.isBalancing /\ result'[1].balancingActive) <=> EntryConditions
              /\ ~EntryConditions =>
                    /\ ~state'.isBalancing /\ state'.balancingStartTime = NoObj
                    /\ ~result'[1].balancingActive
        /\ (BalancingCall /\ ~HoldComplete) =>
              state'.isBalancing /\ result'[1].balancingActive ]_vars

\* C26's case: a cycle that was entered goes on at 06:00, after the window has
\* closed, with the soc below the threshold
C26_Witness ==
    /\ IsObj(result) /\ ValidBattery /\ ~NowInPeak
    /\ submitted.wasBalancing /\ state.isBalancing /\ Res.balancingActive
    /\ getHours(now) = 6
    /\ LastSoc < config.batteryBalancing.socThreshold

\* the peak window opens on day d: the day is not a Saturday or Sunday under
\* weekdaysOnly, and its month is in the peak season
WeekdayApplies(d) == ~(config.weekdaysOnly /\ DayOfWeek(d) \in {0, 6})
PeakHoursApply(d) ==
    WeekdayApplies(d) /\ isInPeakSeason(getMonth(Stamp(d, 0, 0)) + 1, config)
WindowStart(d) == Stamp(d, config.peakHoursStart, 0)
HoursTo(d) == Rat(getTime(WindowStart(d)) - getTime(now), 60)
AtLeastHalf(x) == IF RLt(x, Rat(1, 2)) THEN Rat(1, 2) ELSE x
\* the days to look ahead: a Friday evening is three days before Monday
DaysAhead == now.day .. now.day + 3

Call == submitted[1]
CallPeriods == IF IsObj(Call.forecast) THEN Call.forecast[1].periods ELSE << >>
\* the periods of the forecast that hold the hour of the call
Holding == { i \in 1..Len(CallPeriods) :
               Call.currentHour >= CallPeriods[i].start /\ Call.currentHour < CallPeriods[i].end }
FirstHolding == CallPeriods[CHOOSE i \in Holding : \A k \in Holding : i <= k]
SpentWh ==
    LET key == <<"period", FirstHolding.start, FirstHolding.end>>
    IN  IF IsObj(Call.periodEnergyUsed) /\ key \in DOMAIN Call.periodEnergyUsed[1]
        THEN Call.periodEnergyUsed[1][key] ELSE Num(0)
RemainingWh ==
    RSub(IF IsNum(FirstHolding.budgetWh) THEN FirstHolding.budgetWh ELSE Num(0), SpentWh)
HoursLeft == AtLeastHalf(Num(FirstHolding.end - Call.currentHour))
ExcessW ==
    LET over == RSub(Call.consumptionW, MinimumLimitW(config))
    IN  IF RLt(over, Num(0)) THEN Num(0) ELSE over
\* the energy above minSoc, drawn within ten minutes
AvailableRateW ==
    RMul(RMul(Rat(Call.currentSoc - DischargeMinSoc, 100), config.batteryCapacityWh), Num(6))
Least(S) == CHOOSE x \in S : \A y \in S : RLe(x, y)

\* C28: calculateBudgetedDischarge returns dischargeW = 0 when no forecast period
\* holds the hour, when the remaining budget of the period is <= 0 (reason
\* 'period budget exhausted') and when soc <= minSoc; otherwise dischargeW is
\* the rounded minimum of remaining budget / max(0.5, end - hour), max(0, sample -
\* minimumLimitW), the maximum discharge rate and the available energy as a
\* rate; dischargeW is never negative.
C28_BudgetedDischarge ==
    IsObj(result) =>
        /\ RGe(Res.dischargeW, Num(0))
        /\ IF Holding = {} THEN Res.dischargeW = Num(0)
           ELSE IF RLe(RemainingWh, Num(0))
           THEN Res.dischargeW = Num(0) /\ Res.reason = "period budget exhausted"
           ELSE IF Call.currentSoc <= DischargeMinSoc THEN Res.dischargeW = Num(0)
           ELSE Res.dischargeW =
                    MathRound(Least({ RDiv(RemainingWh, HoursLeft), ExcessW,
                                      config.maxChargeRateW, AvailableRateW }))

\* C28's case: 600 Wh are left of the morning budget one hour before the period
\* ends and the battery can give more, so the budget sets the rate
C28_Witness ==
    /\ IsObj(result)
    /\ Holding # {} /\ Call.currentHour = 8
    /\ RemainingWh = Num(600)
    /\ Res.dischargeW = Num(600)
    /\ Res.reason = "budget-based discharge"

\* the hours of today's weekday for which a value has been learned
LearnedHours ==
    IF getDay(now) \in DOMAIN state.historicalData
    THEN { h \in 0..23 : state.historicalData[getDay(now)].sampleCounts[h] > 0 }
    ELSE {}

\* C30: with forecastSource 'historical', generateForecast returns the time-based
\* forecast whenever fewer than 24 hourly values have been learned for the
\* current weekday, and a forecast from the learned averages only once every
\* one of the 24 hours of that weekday has a learned value.
C30_HistoricalNeedsFullDay ==
    (IsObj(result) /\ config.forecastSource = "historical") =>
        IF Cardinality(LearnedHours) < 24
        THEN Res.source = "time-based"
        ELSE Res.source = "historical"

\* the input is the first one of its date, the date being the one the node
\* compares: the UTC date of toISOString
FirstInputOfDate == ~IsObj(result) \/ IsoDate(now', tzOffset) # IsoDate(now, tzOffset)
\* the energy recorded as spent does not decrease for any period
SpentEnergyGrows ==
    \A k \in DOMAIN state.periodEnergyUsed[1] :
        /\ k \in DOMAIN state'.periodEnergyUsed[1]
        /\ RGe(state'.periodEnergyUsed[1][k], state.periodEnergyUsed[1][k])
DailyForecastStep ==
    /\ FirstInputOfDate =>
          /\ submitted'.reset /\ submitted'.regenerated
          /\ IsObj(state'.currentForecast)
          /\ state'.forecastDate = Obj(IsoDate(now', tzOffset))
    /\ ~FirstInputOfDate =>
          /\ ~submitted'.reset /\ ~submitted'.regenerated
          /\ state'.currentForecast = state.currentForecast
          /\ SpentEnergyGrows

\* C29: with forecasting enabled the forecast is regenerated and periodEnergyUsed
\* cleared on the first input of each calendar date and on no other input;
\* between two inputs of the same date the stored forecast does not change and
\* the energy recorded as spent for a period does not decrease.
C29_ForecastOncePerDate ==
    [][ (now' # now /\ config.forecastSource # "none") => DailyForecastStep ]_vars

\* the same for the inputs of a node none of whose inputs has failed
C29_ForecastOncePerDateUnlessFailed ==
    [][ (now' # now /\ config.forecastSource # "none" /\ ~submitted'.failed) =>
            DailyForecastStep ]_vars

\* the three accepted shapes of an external forecast: pre-computed period
\* objects, a flat array of 24 numbers, and an array of objects with an hour
AllOfType(a, type) == \A i \in DOMAIN a : a[i].type = type
AcceptedShape(ext) ==
    \/ ext.kind = "periods" /\ AllOfType(ext.periods, "object")
    \/ /\ ext.kind \in { "hourly", "array" }
       /\ ArrayLength(ext.hourly) = 24 /\ AllOfType(ext.hourly, "number")
    \/ /\ ext.kind = "hourly" /\ ArrayLength(ext.hourly) > 0
       /\ \A i \in DOMAIN ext.hourly :
             ext.hourly[i].type = "object" /\ ext.hourly[i].hour # NoHour
\* the time-based forecast as generateForecast hands it out
TimeBasedForecast ==
    LET usableCapacityWh == RMul(Rat(90 - 10, 100), Num(10 * 1000))
    IN  IF config.batteryEnabled
        THEN allocateBudget(generateTimeBased(config), usableCapacityWh, config.budgetBuffer)
        ELSE generateTimeBased(config)

\* C31: with forecastSource 'external' generateForecast never raises, and for a
\* missing payload and for a payload that matches none of the three accepted
\* shapes (hourly arrays that are too short, arrays with null entries) it
\* returns the time-based forecast.
C31_ExternalFallback ==
    IsObj(result) =>
        /\ ~Val(result).threw
        /\ (~IsObj(submitted) \/ ~AcceptedShape(Val(submitted))) =>
              /\ IsObj(Val(result).forecast)
              /\ Val(Val(result).forecast).periods = TimeBasedForecast.periods

\* what does hold: a missing payload, an object without periods and hourly,
\* and an array shorter than 24 that is the payload itself or starts with a
\* number give the time-based forecast
ShortOrMissing ==
    \/ ~IsObj(submitted)
    \/ Val(submitted).kind = "object"
    \/ /\ Val(submitted).kind \in { "hourly", "array" }
       /\ ArrayLength(Val(submitted).hourly) < 24
       /\ \/ Val(submitted).kind = "array"
          \/ ArrayLength(Val(submitted).hourly) = 0
          \/ Val(submitted).hourly[0].type = "number"
C31_FallbackForShortOrMissing ==
    (IsObj(result) /\ ShortOrMissing) =>
        /\ ~Val(result).threw
        /\ Val(Val(result).forecast).periods = TimeBasedForecast.periods
        /\ Val(Val(result).forecast).source = "external-fallback"

\* the entry of the last recordPeak call
LastEntry(r) == [ date |-> r.date, hour |-> r.hour, value |-> r.value,
                  effective |-> r.effective ]
\* how often each entry occurs in a list
Occurrences(seq, x) == Cardinality({ i \in 1..Len(seq) : seq[i] = x })
IsPermutation(a, b) ==
    /\ Len(a) = Len(b)
    /\ \A i \in 1..Len(b) : Occurrences(a, b[i]) = Occurrences(b, b[i])
\* kept is all without its entry at position j
IsAllBut(kept, all, j) ==
    /\ Len(kept) = Len(all) - 1
    /\ \A i \in 1..Len(all) :
          Occurrences(kept, all[i]) = Occurrences(all, all[i]) - (IF all[i] = all[j] THEN 1 ELSE 0)

\* C32: after any recordPeak call the ranked list holds at most 3 * peakCount
\* entries, with onePeakPerDay and without it.
C32_AtMostThreeTimesPeakCount == Len(state.peaks) <= 3 * config.peakCount

\* C32 as the code has it: without onePeakPerDay the list holds at most
\* 3 * peakCount entries, and a call on a full list drops one entry that no kept
\* entry ranks below; with onePeakPerDay a call that adds an entry makes the
\* list one longer, whatever its length.
C32_TrimmedUnlessOnePerDay ==
    [][ LET all == Append(state.peaks, LastEntry(Val(result')))
            limit == 3 * config.peakCount
        IN  /\ ~config.onePeakPerDay =>
                  /\ Len(state'.peaks) <= limit
                  /\ Val(result').ret = "added"
                  /\ IF Len(state.peaks) < limit
                     THEN IsPermutation(state'.peaks, all)
                     ELSE \E j \in 1..Len(all) :
                              /\ IsAllBut(state'.peaks, all, j)
                              /\ \A i \in 1..Len(state'.peaks) :
                                    RGe(state'.peaks[i].effective, all[j].effective)
            /\ (config.onePeakPerDay /\ Val(result').ret = "added") =>
                  Len(state'.peaks) = Len(state.peaks) + 1 ]_vars

\* a full list without onePeakPerDay from which every entry of some recorded
\* date has been dropped
C32_Witness ==
    /\ ~config.onePeakPerDay
    /\ Len(state.peaks) = 3 * config.peakCount
    /\ \E d \in RecordDates :
          /\ ~IsNull(submitted[d])
          /\ \A i \in 1..Len(state.peaks) : state.peaks[i].date # d

\* the YYYY-MM key of the month of a timestamp, as <<year, month 1..12>>
MonthKey(t) == <<getFullYear(t), getMonth(t) + 1>>
\* a rollover that stores the outgoing month's single peak
StoringRollover ==
    BillingRollover /\ config.singlePeakMode /\ CurrentPeakOrZero(state) # Num(0)

\* C33: the entry added to the rolling history at a rollover is keyed with the
\* year and month of the billing month that just ended, the month of the
\* engine's previous sample.  The code takes the 0-based month number of the
\* month that ended for its 1-based number, and the year from the new sample.
C33_KeyOfEndedMonth ==
    [][ StoringRollover =>
          /\ Len(state'.monthlyPeaks) >= 1
          /\ state'.monthlyPeaks[Len(state'.monthlyPeaks)].month = MonthKey(now) ]_vars

\* the mean of the stored monthly peaks, 0 when there are none
RECURSIVE TotalPeakW(_)
TotalPeakW(seq) == IF seq = << >> THEN Num(0) ELSE RAdd(Head(seq).peakW, TotalPeakW(Tail(seq)))
MeanPeakW(seq) == IF seq = << >> THEN Num(0) ELSE RDiv(TotalPeakW(seq), Num(Len(seq)))

\* C34: with annual billing enabled and rollingMonths >= 1, monthlyPeaks holds
\* at most rollingMonths entries after every call, a rollover that stores a
\* month appends its entry and drops the oldest one when the window overflows,
\* and the reported rollingAverageW is the mean of the stored entries, 0 when
\* there are none.
C34_RollingWindow ==
    [][ (IsObj(result') /\ config.annualBillingEnabled /\ config.rollingMonths >= 1) =>
          /\ Len(state'.monthlyPeaks) <= config.rollingMonths
          /\ Val(result').rollingAverageW = MeanPeakW(state'.monthlyPeaks)
          /\ IF StoringRollover
             THEN /\ Len(state'.monthlyPeaks) >= 1
                  /\ state'.monthlyPeaks[Len(state'.monthlyPeaks)].peakW =
                        CurrentPeakOrZero(state)
                  /\ state'.monthlyPeaks =
                        LastN(Append(state.monthlyPeaks,
                                     state'.monthlyPeaks[Len(state'.monthlyPeaks)]),
                              config.rollingMonths)
             ELSE state'.monthlyPeaks = state.monthlyPeaks ]_vars

\* a full window whose oldest entry has been dropped: the third stored month,
\* with an average between the two stored peaks
C34_Witness ==
    /\ IsObj(result)
    /\ Res.monthReset
    /\ Len(state.monthlyPeaks) = config.rollingMonths
    /\ now.day >= 3 * DaysPerMonth
    /\ state.monthlyPeaks[1].peakW = Num(5000)
    /\ state.monthlyPeaks[Len(state.monthlyPeaks)].peakW = Num(8000)
    /\ RGt(Res.rollingAverageW, Num(5000))
    /\ RLt(Res.rollingAverageW, Num(8000))

\* the simulation's variables after the last sample, and the hour of that sample
Sim == submitted
SimHourInWindow(t) ==
    getHours(t) >= config.peakHoursStart /\ getHours(t) < config.peakHoursEnd
SocInRange(sim) ==
    RGe(sim.currentSoc, Num(SimMinSoc(config))) /\ RLe(sim.currentSoc, Num(100))

DetectionOff(cfg) ==
    [cfg EXCEPT !.downtimeDetection = [@ EXCEPT !.enabled = FALSE]]
\* what processGridPower leaves and returns for the given configuration: the
\* state and the result object
CallOutcome(st, cfg, t, tz, gridPowerW, batteryState) ==
    LET s1 == AfterMonthCheck(st, cfg, t)
        tracked == Track(s1, cfg, t, tz, ImportPower(gridPowerW))
        lim == TargetLimit(tracked.state, cfg, batteryState)
        outputLimitA == OutputLimitA(cfg, t, lim)
    IN  [ state |-> tracked.state,
          result |-> ResultObj(st, s1, tracked.state, cfg, t, tracked, lim, outputLimitA) ]
\* the hours strictly between two hours of the clock, across midnight too
MissedHours(fromHour, toHour) ==
    { (fromHour + k) % 24 : k \in 1..(HourGap(fromHour, toHour) - 1) }

\* C36: downtime detection only adds the downtime field.  For every call, the
\* state it leaves and every result field but downtime are what the same call
\* gives with detection disabled; when downtime is reported the hour before the
\* gap is completed in the same call, and the registry gains no entry but that
\* hour's, so none for a missed hour.
C36_DetectionOnlyAddsDowntime ==
    [][ IsObj(result') =>
          /\ \E p \in DowntimePowers :
                LET off == CallOutcome(state, DetectionOff(config), now', tzOffset, p, NoObj)
                IN  /\ state' = off.state
                    /\ [result'[1] EXCEPT !.downtime = NoObj] = off.result
                    /\ off.result.downtime = NoObj
          /\ IsObj(result'[1].downtime) =>
                /\ IsObj(result'[1].hourCompleted)
                /\ result'[1].hourCompleted[1].hour = result'[1].downtime[1].fromHour
                /\ result'[1].hourCompleted[1].avgW =
                       RDiv(state.currentHourSum, Num(state.currentHourSamples))
                /\ \A i \in 1..Len(state'.peaks) :
                      \/ \E j \in 1..Len(state.peaks) : state.peaks[j] = state'.peaks[i]
                      \/ /\ state'.peaks[i].hour = result'[1].downtime[1].fromHour
                         /\ state'.peaks[i].hour \notin
                                MissedHours(result'[1].downtime[1].fromHour,
                                            result'[1].downtime[1].toHour) ]_vars

\* C36's case: a call that reports a gap with two missed hours and has entered
\* the hour before the gap in the registry
C36_Witness ==
    /\ IsObj(result)
    /\ IsObj(Res.downtime)
    /\ Res.downtime[1].missedHours >= 2
    /\ IsObj(Res.hourCompleted)
    /\ Res.hourCompleted[1].result \in {"added", "updated"}
    /\ \E i \in 1..Len(state.peaks) : state.peaks[i].hour = Res.downtime[1].fromHour

\* the periods of the day's forecast, the budget of the period a key names and
\* the energy booked on it
SimPeriods(sim) == IF IsObj(sim.currentForecast) THEN Val(sim.currentForecast).periods ELSE << >>
SimPeriodKeys(sim) == { PeriodKey(SimPeriods(sim)[i]) : i \in 1..Len(SimPeriods(sim)) }
SimBudgetWh(sim, key) ==
    LET i == CHOOSE i \in 1..Len(SimPeriods(sim)) : PeriodKey(SimPeriods(sim)[i]) = key
    IN  OrZero(SimPeriods(sim)[i].budgetWh)
SimExhausted(sim, key) == RGe(UsedWh(sim, key), SimBudgetWh(sim, key))

\* C37: in the simulation with forecasting enabled, after every step the energy
\* booked in periodEnergyUsed for a forecast period is at most that period's
\* budgetWh.  The rate is rounded to whole watts, so with one sample per hour
\* the last hour of a period books up to half a watt-hour more than is left.
C37_WithinBudget ==
    \A key \in DOMAIN Val(Sim.periodEnergyUsed) :
        /\ key \in SimPeriodKeys(Sim)
        /\ RLe(UsedWh(Sim, key), SimBudgetWh(Sim, key))

\* C37, the part that holds: the energy booked on a period only grows between
\* two daily resets, and a step in a period whose budget is used up gets a
\* budgeted discharge of 0 and books nothing.
C37_ExhaustedStaysZero ==
    [][ (Sim'.sample # Sim.sample /\ Sim'.forecastDate = Sim.forecastDate) =>
          /\ Sim'.currentForecast = Sim.currentForecast
          /\ \A key \in SimPeriodKeys(Sim) :
                /\ RGe(UsedWh(Sim', key), UsedWh(Sim, key))
                /\ SimExhausted(Sim, key) =>
                      /\ UsedWh(Sim', key) = UsedWh(Sim, key)
                      /\ SimExhausted(Sim', key)
                      /\ (IsObj(Sim'.dischargeInfo)
                             /\ Val(Sim'.dischargeInfo).periodKey = Obj(key)) =>
                            /\ Val(Sim'.dischargeInfo).dischargeW = Num(0)
                            /\ Sim'.dischargeRateW = Num(0)
                            /\ Sim'.batteryAction = "idle" ]_vars

\* a step inside a period whose budget had been used up before it
C37_ExhaustedReached ==
    /\ IsObj(Sim.dischargeInfo)
    /\ Val(Sim.dischargeInfo).reason = "period budget exhausted"
    /\ RGt(UsedWh(Sim, Val(Val(Sim.dischargeInfo).periodKey)), Num(0))

\* the period a reading belongs to: its 15- or 30-minute interval, or its clock
\* hour of its calendar day
PeriodOf(t) ==
    IF UseIntervalTracking(config)
    THEN getIntervalId(t, tzOffset, IntervalMinutes(config))
    ELSE <<t.day, getHours(t), 0>>
\* result.intervalCompleted or result.hourCompleted, as the measurement is configured
CompletedOf(res) ==
    IF UseIntervalTracking(config) THEN res.intervalCompleted ELSE res.hourCompleted

\* C38: every accumulated hour or interval that holds at least one sample and
\* lies inside peak hours and peak season is submitted to the peak registry by
\* the first call of a later period; the call reports it as completed with the
\* registry's answer.  The first call of a new month clears the accumulator
\* before it is looked at, so the last period of a month is never submitted.
C38_PendingSubmitted ==
    [][ ( /\ IsObj(result')
          /\ AccSamples(state) > 0
          /\ PeriodOf(now') # PeriodOf(now)
          /\ isInPeakHours(getHours(now), getDay(now), getMonth(now) + 1, config) ) =>
          /\ IsObj(CompletedOf(result'[1]))
          /\ CompletedOf(result'[1])[1].result \in {"added", "updated", "kept"} ]_vars

\* C38 away from the month boundary and, in hourly mode, for two readings that
\* are not in the same clock hour of different days: the accumulated period is
\* completed and, when the completing reading is itself in a peak hour, submitted
C38_SubmittedWithinMonth ==
    [][ ( /\ IsObj(result')
          /\ AccSamples(state) > 0
          /\ PeriodOf(now') # PeriodOf(now)
          /\ getMonth(now') = getMonth(now)
          /\ (UseIntervalTracking(config) \/ getHours(now') # getHours(now))
          /\ isInPeakHours(getHours(now), getDay(now), getMonth(now) + 1, config)
          /\ isInPeakHours(getHours(now), getDay(now'), getMonth(now') + 1, config) ) =>
          /\ IsObj(CompletedOf(result'[1]))
          /\ CompletedOf(result'[1])[1].result \in {"added", "updated", "kept"} ]_vars

\* C39: in ranked mode with fixed headroom, once a call has reported a target
\* outside the learning phase, every later call of the same billing month
\* reports a target at least as high.  An entry updated in place leaves the
\* list unsorted (C1), and the next added entry sorts it again: the target
\* rises to the updated value and falls back.
C39_TargetNeverDecreases ==
    [][ ( /\ IsObj(result) /\ IsObj(result')
          /\ ~config.singlePeakMode
          /\ ~Res.isLearning
          /\ ~result'[1].monthReset ) =>
          /\ ~result'[1].isLearning
          /\ RGe(result'[1].targetLimitW, Res.targetLimitW) ]_vars

\* C40: in hourly mode a reading in another clock hour or on another calendar
\* day than the hour being accumulated closes that hour first: the call reports
\* it as completed with the average of its own readings and the accumulator
\* starts again with the new reading alone.  Stated for two readings of the
\* same month.  The accumulator is keyed by the hour number only, so a reading
\* in the same clock hour of a later day is added to the old hour.
C40_ClosedBeforeAccumulating ==
    [][ ( /\ IsObj(result')
          /\ ~UseIntervalTracking(config)
          /\ state.currentHourSamples > 0
          /\ getMonth(now') = getMonth(now)
          /\ (now'.day # now.day \/ getHours(now') # getHours(now)) ) =>
          /\ IsObj(result'[1].hourCompleted)
          /\ result'[1].hourCompleted[1].hour = getHours(now)
          /\ result'[1].hourCompleted[1].avgW =
                 RDiv(state.currentHourSum, Num(state.currentHourSamples))
          /\ state'.currentHour = getHours(now')
          /\ state'.currentHourSamples = 1 ]_vars

\* C40 for two readings in different clock hours: the accumulated hour is closed
\* whatever the gap between them
C40_ClosedOnHourChange ==
    [][ ( /\ IsObj(result')
          /\ ~UseIntervalTracking(config)
          /\ state.currentHourSamples > 0
          /\ getMonth(now') = getMonth(now)
          /\ getHours(now') # getHours(now) ) =>
          /\ IsObj(result'[1].hourCompleted)
          /\ result'[1].hourCompleted[1].hour = getHours(now)
          /\ result'[1].hourCompleted[1].avgW =
                 RDiv(state.currentHourSum, Num(state.currentHourSamples))
          /\ state'.currentHour = getHours(now')
          /\ state'.currentHourSamples = 1 ]_vars

====
